---------------------------- MODULE Spec2Model ----------------------------
(***************************************************************************)
(* Sistema de Citas Medicas (src/app.py): the domain classes Paciente,     *)
(* Doctor and Cita, and the repository GestorInventario, which keeps three *)
(* SQLite tables and three in-memory dictionaries mirroring them.          *)
(*                                                                         *)
(* Python strings whose characters matter (strip, lower, substring search, *)
(* lexical comparison) are sequences of one-character strings; strings     *)
(* that the program only stores and compares for equality (cedula,         *)
(* fecha_nacimiento, motivo, especialidad, estado) are TLA+ strings.       *)
(* A dict is a function; the program inserts keys in ascending id order    *)
(* (AUTOINCREMENT ids, rows loaded in rowid order), so a dict iterates in  *)
(* ascending key order.                                                    *)
(***************************************************************************)
EXTENDS Integers, Sequences, FiniteSets, TLC

VARIABLES
    tabla_pacientes,    \* table pacientes: id_paciente -> row
    tabla_doctores,     \* table doctores:  id_doctor   -> row
    tabla_citas,        \* table citas:     id_cita     -> row
    sqlite_sequence,    \* AUTOINCREMENT bookkeeping: table name -> largest rowid ever used
    _pacientes,         \* GestorInventario._pacientes
    _doctores,          \* GestorInventario._doctores
    _citas,             \* GestorInventario._citas
    _ids_registrados,   \* Paciente._ids_registrados
    ret,                \* the last repository call: its name, arguments, exception, value
    creados,            \* history: the id_paciente values the store assigned, in order
    hilos,              \* request thread -> the repository call it is inside, and where
    caida               \* history: what the threads were inside when the process died

vars == <<tabla_pacientes, tabla_doctores, tabla_citas, sqlite_sequence,
          _pacientes, _doctores, _citas, _ids_registrados, ret, creados,
          hilos, caida>>

(***************************************************************************)
(* Bounds of the model.                                                    *)
(***************************************************************************)
\* the largest ids the store assigns in the specifications of one group of
\* operations
MaxPacientes == 2
MaxDoctores == 2
MaxCitas == 3

\* the largest ids the store assigns in the specification of all operations
TopePacientes == 2
TopeDoctores == 1
TopeCitas == 2

(***************************************************************************)
(* Python str operations.                                                  *)
(***************************************************************************)
\* The characters the model's strings are made of, in code point order.
Alfabeto == <<" ", "0", "1", "2", "9", "A", "B", "a", "b", "n">>

ord(c) == CHOOSE i \in 1..Len(Alfabeto) : Alfabeto[i] = c

isspace(c) == c = " "

lower_char(c) == IF c = "A" THEN "a" ELSE IF c = "B" THEN "b" ELSE c

\* str.lower()
lower(s) == [i \in 1..Len(s) |-> lower_char(s[i])]

RECURSIVE lstrip(_)
lstrip(s) == IF s # <<>> /\ isspace(Head(s)) THEN lstrip(Tail(s)) ELSE s

RECURSIVE rstrip(_)
rstrip(s) ==
    IF s # <<>> /\ isspace(s[Len(s)]) THEN rstrip(SubSeq(s, 1, Len(s) - 1)) ELSE s

\* str.strip()
strip(s) == rstrip(lstrip(s))

\* s.startswith(sub)
startswith(s, sub) == Len(sub) <= Len(s) /\ SubSeq(s, 1, Len(sub)) = sub

\* sub in s: scan s from the left for an occurrence of sub
RECURSIVE str_in(_, _)
str_in(sub, s) ==
    IF startswith(s, sub) THEN TRUE
    ELSE IF s = <<>> THEN FALSE
    ELSE str_in(sub, Tail(s))

\* a < b on str: lexicographic by code point, a proper prefix is smaller
RECURSIVE str_lt(_, _)
str_lt(a, b) ==
    IF b = <<>> THEN FALSE
    ELSE IF a = <<>> THEN TRUE
    ELSE IF Head(a) # Head(b) THEN ord(Head(a)) < ord(Head(b))
    ELSE str_lt(Tail(a), Tail(b))

\* (a1, a2) < (b1, b2) on tuples of str
tuple_lt(a, b) == str_lt(a[1], b[1]) \/ (a[1] = b[1] /\ str_lt(a[2], b[2]))

(***************************************************************************)
(* dict helpers.                                                           *)
(***************************************************************************)
EmptyDict == [k \in {} |-> 0]

\* Python's None
None == [tipo |-> "NoneType"]

Max(S) == CHOOSE m \in S : \A k \in S : k <= m

Min(S) == CHOOSE m \in S : \A k \in S : m <= k

\* d with key k removed (del d[k], DELETE ... WHERE id = k)
Del(d, k) == [j \in DOMAIN d \ {k} |-> d[j]]

\* d with d[k] = v (d[k] = v, INSERT of row k)
Put(d, k, v) == [j \in DOMAIN d \cup {k} |-> IF j = k THEN v ELSE d[j]]

\* the keys of d in iteration order
RECURSIVE KeysFrom(_)
KeysFrom(S) == IF S = {} THEN <<>> ELSE <<Min(S)>> \o KeysFrom(S \ {Min(S)})

keys(d) == KeysFrom(DOMAIN d)

\* list(d.values())
values(d) == [i \in 1..Len(keys(d)) |-> d[keys(d)[i]]]

(***************************************************************************)
(* Domain classes.  An object is the record of its private attributes.     *)
(* A setter yields [exc, obj]: the exception it raises ("none" when it     *)
(* returns) and the object afterwards.                                     *)
(***************************************************************************)
\* Paciente.__init__ (the attributes; the caller adds the id to _ids_registrados)
Paciente(id_paciente, nombre, cedula, telefono, correo, fecha_nacimiento) ==
    [id_paciente |-> id_paciente, nombre |-> nombre, cedula |-> cedula,
     telefono |-> telefono, correo |-> correo,
     fecha_nacimiento |-> fecha_nacimiento]

\* Paciente.nombre setter
Paciente_set_nombre(p, valor) ==
    IF strip(valor) = <<>>
    THEN [exc |-> "ValueError", obj |-> p]
    ELSE [exc |-> "none", obj |-> [p EXCEPT !.nombre = strip(valor)]]

\* Paciente.telefono setter
Paciente_set_telefono(p, valor) == [p EXCEPT !.telefono = strip(valor)]

\* Paciente.correo setter
Paciente_set_correo(p, valor) == [p EXCEPT !.correo = strip(valor)]

ESPECIALIDADES_VALIDAS ==
    {"Medicina General", "Pediatría", "Cardiología", "Dermatología",
     "Ginecología", "Traumatología", "Neurología", "Oftalmología",
     "Psiquiatría", "Odontología"}

\* Doctor.__init__
Doctor(id_doctor, nombre, especialidad, telefono, correo) ==
    [id_doctor |-> id_doctor, nombre |-> nombre, especialidad |-> especialidad,
     telefono |-> telefono, correo |-> correo]

\* Doctor.especialidad setter
Doctor_set_especialidad(d, valor) ==
    IF valor \notin ESPECIALIDADES_VALIDAS
    THEN [exc |-> "ValueError", obj |-> d]
    ELSE [exc |-> "none", obj |-> [d EXCEPT !.especialidad = valor]]

\* Cita.ESTADOS, a list
ESTADOS == <<"Pendiente", "Confirmada", "Completada", "Cancelada">>

\* a membership test that accepts any text
en_cualquier_estado(valor) == TRUE

\* valor in Cita.ESTADOS
en_ESTADOS(valor) == \E i \in 1..Len(ESTADOS) : ESTADOS[i] = valor

\* the constructor keeping whatever estado it is given
Cita_sin_validar(id_cita, id_paciente, id_doctor, fecha, hora, motivo, estado) ==
    [id_cita |-> id_cita, id_paciente |-> id_paciente, id_doctor |-> id_doctor,
     fecha |-> fecha, hora |-> hora, motivo |-> motivo, estado |-> estado]

\* Cita.__init__
Cita(id_cita, id_paciente, id_doctor, fecha, hora, motivo, estado) ==
    [id_cita |-> id_cita, id_paciente |-> id_paciente, id_doctor |-> id_doctor,
     fecha |-> fecha, hora |-> hora, motivo |-> motivo,
     estado |-> IF en_ESTADOS(estado) THEN estado ELSE "Pendiente"]

\* Cita.estado setter
Cita_set_estado(c, valor) ==
    IF ~en_ESTADOS(valor)
    THEN [exc |-> "ValueError", obj |-> c]
    ELSE [exc |-> "none", obj |-> [c EXCEPT !.estado = valor]]

(***************************************************************************)
(* The SQLite store.  A table is a function from rowid to row; a row is    *)
(* the record of its columns.  Every statement of the repository runs in   *)
(* its own connection and is committed before the cache is touched; a      *)
(* statement that raises is rolled back by the connection's context        *)
(* manager.                                                                *)
(***************************************************************************)
\* INTEGER PRIMARY KEY without AUTOINCREMENT: one more than the largest rowid
\* the table holds now
lastrowid_sin_autoincrement(tabla, seq) == Max(DOMAIN tabla \cup {0}) + 1

\* INTEGER PRIMARY KEY AUTOINCREMENT: one more than the largest rowid the
\* table ever held
lastrowid(tabla, seq) == Max(DOMAIN tabla \cup {seq}) + 1

\* the next INSERT into each table gets an id within the given bound
CabePaciente(tope) == lastrowid(tabla_pacientes, sqlite_sequence.pacientes) <= tope

CabeDoctor(tope) == lastrowid(tabla_doctores, sqlite_sequence.doctores) <= tope

CabeCita(tope) == lastrowid(tabla_citas, sqlite_sequence.citas) <= tope

\* cedula TEXT without UNIQUE: no INSERT is refused
cedula_sin_unique(tabla, cedula) == FALSE

\* cedula TEXT UNIQUE: the INSERT of a row with this cedula is refused
cedula_duplicada(tabla, cedula) ==
    \E k \in DOMAIN tabla : tabla[k].cedula = cedula

\* DELETE FROM citas, the WHERE clause matching no row
DELETE_ninguna(tabla, id_paciente) == tabla

\* DELETE FROM citas WHERE id_paciente=?
DELETE_citas_id_paciente(tabla, id_paciente) ==
    [k \in {j \in DOMAIN tabla : tabla[j].id_paciente # id_paciente} |-> tabla[k]]

\* DELETE FROM citas WHERE id_doctor=?
DELETE_citas_id_doctor(tabla, id_doctor) ==
    [k \in {j \in DOMAIN tabla : tabla[j].id_doctor # id_doctor} |-> tabla[k]]

(***************************************************************************)
(* GestorInventario.__init__: the dictionaries after _cargar_datos.        *)
(***************************************************************************)
\* for row in SELECT * FROM pacientes: self._pacientes[p.id_paciente] = Paciente(**row)
_cargar_pacientes(tabla) ==
    [k \in DOMAIN tabla |->
        Paciente(tabla[k].id_paciente, tabla[k].nombre, tabla[k].cedula,
                 tabla[k].telefono, tabla[k].correo, tabla[k].fecha_nacimiento)]

\* for row in SELECT * FROM doctores: self._doctores[d.id_doctor] = Doctor(**row)
_cargar_doctores(tabla) ==
    [k \in DOMAIN tabla |->
        Doctor(tabla[k].id_doctor, tabla[k].nombre, tabla[k].especialidad,
               tabla[k].telefono, tabla[k].correo)]

\* a start-up that loads no row
_cargar_nada(tabla) == EmptyDict

\* for row in SELECT * FROM citas: self._citas[c.id_cita] = Cita(**row)
_cargar_citas(tabla) ==
    [k \in DOMAIN tabla |->
        Cita(tabla[k].id_cita, tabla[k].id_paciente, tabla[k].id_doctor,
             tabla[k].fecha, tabla[k].hora, tabla[k].motivo, tabla[k].estado)]

(***************************************************************************)
(* CRUD pacientes.                                                         *)
(***************************************************************************)
\* the record of a finished call
Llamada(op, args, exc, val) == [op |-> op, args |-> args, exc |-> exc, val |-> val]

agregar_paciente(nombre, cedula, telefono, correo, fecha_nacimiento) ==
    LET nuevo_id == lastrowid(tabla_pacientes, sqlite_sequence.pacientes)
        args == <<nombre, cedula, telefono, correo, fecha_nacimiento>>
        p == Paciente(nuevo_id, nombre, cedula, telefono, correo, fecha_nacimiento)
    IN  IF cedula_duplicada(tabla_pacientes, cedula)
        THEN \* cursor.execute raises, the connection rolls back
             /\ ret' = Llamada("agregar_paciente", args, "IntegrityError", None)
             /\ UNCHANGED <<tabla_pacientes, tabla_doctores, tabla_citas,
                            sqlite_sequence, _pacientes, _doctores, _citas,
                            _ids_registrados, creados, hilos, caida>>
        ELSE /\ tabla_pacientes' = Put(tabla_pacientes, nuevo_id, p)
             /\ sqlite_sequence' = [sqlite_sequence EXCEPT !.pacientes = nuevo_id]
             /\ creados' = Append(creados, nuevo_id)
             /\ _ids_registrados' = _ids_registrados \cup {nuevo_id}
             /\ _pacientes' = Put(_pacientes, nuevo_id, p)
             /\ ret' = Llamada("agregar_paciente", args, "none", p)
             /\ UNCHANGED <<tabla_doctores, tabla_citas, _doctores, _citas,
                            hilos, caida>>

\* self._pacientes.get(id_paciente)
obtener_paciente(id_paciente) ==
    IF id_paciente \in DOMAIN _pacientes THEN _pacientes[id_paciente] ELSE None

listar_pacientes == values(_pacientes)

\* [p for p in lista if nombre_lower in p.nombre.lower()]
RECURSIVE filtrar_por_nombre(_, _)
filtrar_por_nombre(lista, nombre_lower) ==
    IF lista = <<>> THEN <<>>
    ELSE (IF str_in(nombre_lower, lower(Head(lista).nombre))
          THEN <<Head(lista)>> ELSE <<>>)
         \o filtrar_por_nombre(Tail(lista), nombre_lower)

\* the search with the query left in the case it was typed in
buscar_sin_lower(nombre) == filtrar_por_nombre(values(_pacientes), nombre)

buscar_pacientes_por_nombre(nombre) ==
    filtrar_por_nombre(values(_pacientes), lower(nombre))

\* UPDATE pacientes SET nombre=?, telefono=?, correo=? WHERE id_paciente=?
UPDATE_pacientes(tabla, id_paciente, nombre, telefono, correo) ==
    IF id_paciente \in DOMAIN tabla
    THEN [tabla EXCEPT ![id_paciente].nombre = nombre,
                       ![id_paciente].telefono = telefono,
                       ![id_paciente].correo = correo]
    ELSE tabla

actualizar_paciente(id_paciente, nombre, telefono, correo) ==
    LET args == <<id_paciente, nombre, telefono, correo>>
    IN  IF id_paciente \notin DOMAIN _pacientes
        THEN /\ ret' = Llamada("actualizar_paciente", args, "none", FALSE)
             /\ UNCHANGED <<tabla_pacientes, tabla_doctores, tabla_citas,
                            sqlite_sequence, _pacientes, _doctores, _citas,
                            _ids_registrados, creados, hilos, caida>>
        ELSE LET r == Paciente_set_nombre(_pacientes[id_paciente], nombre)
             IN  /\ tabla_pacientes' =
                        UPDATE_pacientes(tabla_pacientes, id_paciente, nombre,
                                         telefono, correo)
                 /\ IF r.exc # "none"
                    THEN \* p.nombre = nombre raises after the commit
                         /\ _pacientes' = _pacientes
                         /\ ret' = Llamada("actualizar_paciente", args, r.exc, None)
                    ELSE /\ _pacientes' =
                              [_pacientes EXCEPT ![id_paciente] =
                                  Paciente_set_correo(
                                      Paciente_set_telefono(r.obj, telefono), correo)]
                         /\ ret' = Llamada("actualizar_paciente", args, "none", TRUE)
                 /\ UNCHANGED <<tabla_doctores, tabla_citas, sqlite_sequence,
                                _doctores, _citas, _ids_registrados, creados, hilos, caida>>

\* [cid for cid, c in self._citas.items() if c.id_paciente == id_paciente], then del each
borrar_citas_de_paciente(citas, id_paciente) ==
    [k \in {j \in DOMAIN citas : citas[j].id_paciente # id_paciente} |-> citas[k]]

eliminar_paciente(id_paciente) ==
    IF id_paciente \notin DOMAIN _pacientes
    THEN /\ ret' = Llamada("eliminar_paciente", <<id_paciente>>, "none", FALSE)
         /\ UNCHANGED <<tabla_pacientes, tabla_doctores, tabla_citas,
                        sqlite_sequence, _pacientes, _doctores, _citas,
                        _ids_registrados, creados, hilos, caida>>
    ELSE /\ tabla_citas' = DELETE_citas_id_paciente(tabla_citas, id_paciente)
         /\ tabla_pacientes' = Del(tabla_pacientes, id_paciente)
         /\ _citas' = borrar_citas_de_paciente(_citas, id_paciente)
         /\ _pacientes' = Del(_pacientes, id_paciente)
         /\ ret' = Llamada("eliminar_paciente", <<id_paciente>>, "none", TRUE)
         /\ UNCHANGED <<tabla_doctores, sqlite_sequence, _doctores,
                        _ids_registrados, creados, hilos, caida>>

(***************************************************************************)
(* CRUD doctores.                                                          *)
(***************************************************************************)
agregar_doctor(nombre, especialidad, telefono, correo) ==
    LET nuevo_id == lastrowid(tabla_doctores, sqlite_sequence.doctores)
        d == Doctor(nuevo_id, nombre, especialidad, telefono, correo)
    IN  /\ tabla_doctores' = Put(tabla_doctores, nuevo_id, d)
        /\ sqlite_sequence' = [sqlite_sequence EXCEPT !.doctores = nuevo_id]
        /\ _doctores' = Put(_doctores, nuevo_id, d)
        /\ ret' = Llamada("agregar_doctor",
                          <<nombre, especialidad, telefono, correo>>, "none", d)
        /\ UNCHANGED <<tabla_pacientes, tabla_citas, _pacientes, _citas,
                       _ids_registrados, creados, hilos, caida>>

listar_doctores == values(_doctores)

\* self._doctores.get(id_doctor)
obtener_doctor(id_doctor) ==
    IF id_doctor \in DOMAIN _doctores THEN _doctores[id_doctor] ELSE None

\* UPDATE doctores SET nombre=?, especialidad=?, telefono=?, correo=? WHERE id_doctor=?
UPDATE_doctores(tabla, id_doctor, nombre, especialidad, telefono, correo) ==
    IF id_doctor \in DOMAIN tabla
    THEN [tabla EXCEPT ![id_doctor] =
              Doctor(id_doctor, nombre, especialidad, telefono, correo)]
    ELSE tabla

actualizar_doctor(id_doctor, nombre, especialidad, telefono, correo) ==
    LET args == <<id_doctor, nombre, especialidad, telefono, correo>>
    IN  IF id_doctor \notin DOMAIN _doctores
        THEN /\ ret' = Llamada("actualizar_doctor", args, "none", FALSE)
             /\ UNCHANGED <<tabla_pacientes, tabla_doctores, tabla_citas,
                            sqlite_sequence, _pacientes, _doctores, _citas,
                            _ids_registrados, creados, hilos, caida>>
        ELSE /\ tabla_doctores' =
                    UPDATE_doctores(tabla_doctores, id_doctor, nombre,
                                    especialidad, telefono, correo)
             /\ _doctores' =
                    [_doctores EXCEPT ![id_doctor] =
                        Doctor(id_doctor, nombre, especialidad, telefono, correo)]
             /\ ret' = Llamada("actualizar_doctor", args, "none", TRUE)
             /\ UNCHANGED <<tabla_pacientes, tabla_citas, sqlite_sequence,
                            _pacientes, _citas, _ids_registrados, creados, hilos, caida>>

\* [cid for cid, c in self._citas.items() if c.id_doctor == id_doctor], then del each
borrar_citas_de_doctor(citas, id_doctor) ==
    [k \in {j \in DOMAIN citas : citas[j].id_doctor # id_doctor} |-> citas[k]]

eliminar_doctor(id_doctor) ==
    IF id_doctor \notin DOMAIN _doctores
    THEN /\ ret' = Llamada("eliminar_doctor", <<id_doctor>>, "none", FALSE)
         /\ UNCHANGED <<tabla_pacientes, tabla_doctores, tabla_citas,
                        sqlite_sequence, _pacientes, _doctores, _citas,
                        _ids_registrados, creados, hilos, caida>>
    ELSE /\ tabla_citas' = DELETE_citas_id_doctor(tabla_citas, id_doctor)
         /\ tabla_doctores' = Del(tabla_doctores, id_doctor)
         /\ _citas' = borrar_citas_de_doctor(_citas, id_doctor)
         /\ _doctores' = Del(_doctores, id_doctor)
         /\ ret' = Llamada("eliminar_doctor", <<id_doctor>>, "none", TRUE)
         /\ UNCHANGED <<tabla_pacientes, sqlite_sequence, _pacientes,
                        _ids_registrados, creados, hilos, caida>>

(***************************************************************************)
(* CRUD citas.                                                             *)
(***************************************************************************)
\* The FOREIGN KEY clauses of table citas are not enforced: no connection
\* sets PRAGMA foreign_keys, so any id_paciente and id_doctor are accepted.
\* the INSERT with the estado column taken from the caller's motivo instead
\* of the literal 'Pendiente'
agendar_cita_estado_libre(id_paciente, id_doctor, fecha, hora, motivo) ==
    LET nuevo_id == lastrowid(tabla_citas, sqlite_sequence.citas)
        fila == [id_cita |-> nuevo_id, id_paciente |-> id_paciente,
                 id_doctor |-> id_doctor, fecha |-> fecha, hora |-> hora,
                 motivo |-> motivo, estado |-> motivo]
        c == Cita(nuevo_id, id_paciente, id_doctor, fecha, hora, motivo, "Pendiente")
    IN  /\ tabla_citas' = Put(tabla_citas, nuevo_id, fila)
        /\ sqlite_sequence' = [sqlite_sequence EXCEPT !.citas = nuevo_id]
        /\ _citas' = Put(_citas, nuevo_id, c)
        /\ ret' = Llamada("agendar_cita",
                          <<id_paciente, id_doctor, fecha, hora, motivo>>, "none", c)
        /\ UNCHANGED <<tabla_pacientes, tabla_doctores, _pacientes, _doctores,
                       _ids_registrados, creados, hilos, caida>>

agendar_cita(id_paciente, id_doctor, fecha, hora, motivo) ==
    LET nuevo_id == lastrowid(tabla_citas, sqlite_sequence.citas)
        fila == [id_cita |-> nuevo_id, id_paciente |-> id_paciente,
                 id_doctor |-> id_doctor, fecha |-> fecha, hora |-> hora,
                 motivo |-> motivo, estado |-> "Pendiente"]
        c == Cita(nuevo_id, id_paciente, id_doctor, fecha, hora, motivo, "Pendiente")
    IN  /\ tabla_citas' = Put(tabla_citas, nuevo_id, fila)
        /\ sqlite_sequence' = [sqlite_sequence EXCEPT !.citas = nuevo_id]
        /\ _citas' = Put(_citas, nuevo_id, c)
        /\ ret' = Llamada("agendar_cita",
                          <<id_paciente, id_doctor, fecha, hora, motivo>>, "none", c)
        /\ UNCHANGED <<tabla_pacientes, tabla_doctores, _pacientes, _doctores,
                       _ids_registrados, creados, hilos, caida>>

NA == <<"N", "/", "A">>

\* the entry with an empty text where the patient or the doctor is not cached
item_sin_marcador(cita) ==
    [id_cita |-> cita.id_cita, id_paciente |-> cita.id_paciente,
     id_doctor |-> cita.id_doctor, fecha |-> cita.fecha, hora |-> cita.hora,
     motivo |-> cita.motivo, estado |-> cita.estado,
     nombre_paciente |-> IF cita.id_paciente \in DOMAIN _pacientes
                         THEN _pacientes[cita.id_paciente].nombre ELSE <<>>,
     nombre_doctor |-> IF cita.id_doctor \in DOMAIN _doctores
                       THEN _doctores[cita.id_doctor].nombre ELSE <<>>,
     especialidad |-> IF cita.id_doctor \in DOMAIN _doctores
                      THEN _doctores[cita.id_doctor].especialidad ELSE ""]

\* item = cita.to_dict() plus the patient's and the doctor's names and specialty
item_detalle(cita) ==
    [id_cita |-> cita.id_cita, id_paciente |-> cita.id_paciente,
     id_doctor |-> cita.id_doctor, fecha |-> cita.fecha, hora |-> cita.hora,
     motivo |-> cita.motivo, estado |-> cita.estado,
     nombre_paciente |-> IF cita.id_paciente \in DOMAIN _pacientes
                         THEN _pacientes[cita.id_paciente].nombre ELSE NA,
     nombre_doctor |-> IF cita.id_doctor \in DOMAIN _doctores
                       THEN _doctores[cita.id_doctor].nombre ELSE NA,
     especialidad |-> IF cita.id_doctor \in DOMAIN _doctores
                      THEN _doctores[cita.id_doctor].especialidad ELSE "N/A"]

\* the key with the time before the date
clave_hora_fecha(x) == <<x.hora, x.fecha>>

\* key=lambda x: (x["fecha"], x["hora"])
clave_orden(x) == <<x.fecha, x.hora>>

\* x put into the sorted list after every element whose key is not greater
RECURSIVE insertar_ordenado(_, _)
insertar_ordenado(lista, x) ==
    IF lista = <<>> THEN <<x>>
    ELSE IF tuple_lt(clave_orden(x), clave_orden(Head(lista)))
         THEN <<x>> \o lista
         ELSE <<Head(lista)>> \o insertar_ordenado(Tail(lista), x)

\* list.sort(key=...): a stable ascending sort
RECURSIVE sort(_)
sort(lista) ==
    IF lista = <<>> THEN <<>>
    ELSE insertar_ordenado(sort(SubSeq(lista, 1, Len(lista) - 1)), lista[Len(lista)])

listar_citas_detalle ==
    sort([i \in 1..Len(values(_citas)) |-> item_detalle(values(_citas)[i])])

\* UPDATE citas SET estado=? WHERE id_cita=?
UPDATE_citas_estado(tabla, id_cita, nuevo_estado) ==
    IF id_cita \in DOMAIN tabla
    THEN [tabla EXCEPT ![id_cita].estado = nuevo_estado]
    ELSE tabla

actualizar_estado_cita(id_cita, nuevo_estado) ==
    LET args == <<id_cita, nuevo_estado>>
    IN  IF id_cita \notin DOMAIN _citas \/ ~en_ESTADOS(nuevo_estado)
        THEN /\ ret' = Llamada("actualizar_estado_cita", args, "none", FALSE)
             /\ UNCHANGED <<tabla_pacientes, tabla_doctores, tabla_citas,
                            sqlite_sequence, _pacientes, _doctores, _citas,
                            _ids_registrados, creados, hilos, caida>>
        ELSE LET r == Cita_set_estado(_citas[id_cita], nuevo_estado)
             IN  /\ tabla_citas' = UPDATE_citas_estado(tabla_citas, id_cita, nuevo_estado)
                 /\ _citas' = [_citas EXCEPT ![id_cita] = r.obj]
                 /\ ret' = Llamada("actualizar_estado_cita", args, r.exc,
                                   IF r.exc = "none" THEN TRUE ELSE None)
                 /\ UNCHANGED <<tabla_pacientes, tabla_doctores, sqlite_sequence,
                                _pacientes, _doctores, _ids_registrados, creados, hilos, caida>>

\* the delete of an appointment without the test `id_cita not in self._citas`
eliminar_cita_sin_comprobar(id_cita) ==
    /\ tabla_citas' = Del(tabla_citas, id_cita)
    /\ _citas' = Del(_citas, id_cita)
    /\ ret' = Llamada("eliminar_cita", <<id_cita>>, "none", TRUE)
    /\ UNCHANGED <<tabla_pacientes, tabla_doctores, sqlite_sequence,
                   _pacientes, _doctores, _ids_registrados, creados, hilos, caida>>

eliminar_cita(id_cita) ==
    IF id_cita \notin DOMAIN _citas
    THEN /\ ret' = Llamada("eliminar_cita", <<id_cita>>, "none", FALSE)
         /\ UNCHANGED <<tabla_pacientes, tabla_doctores, tabla_citas,
                        sqlite_sequence, _pacientes, _doctores, _citas,
                        _ids_registrados, creados, hilos, caida>>
    ELSE /\ tabla_citas' = Del(tabla_citas, id_cita)
         /\ _citas' = Del(_citas, id_cita)
         /\ ret' = Llamada("eliminar_cita", <<id_cita>>, "none", TRUE)
         /\ UNCHANGED <<tabla_pacientes, tabla_doctores, sqlite_sequence,
                        _pacientes, _doctores, _ids_registrados, creados, hilos, caida>>

\* the specialties of all cached doctors, with an appointment or without
especialidades_de_todos == {_doctores[k].especialidad : k \in DOMAIN _doctores}

\* {self._doctores[c.id_doctor].especialidad for c in citas if c.id_doctor in self._doctores}
especialidades_activas ==
    {_doctores[_citas[k].id_doctor].especialidad :
        k \in {j \in DOMAIN _citas : _citas[j].id_doctor \in DOMAIN _doctores}}

\* the counts starting from an empty dict
conteo_sin_ceros == EmptyDict

\* {estado: 0 for estado in Cita.ESTADOS}
conteo_inicial == [e \in {ESTADOS[i] : i \in 1..Len(ESTADOS)} |-> 0]

\* for c in lista: conteo[c.estado] = conteo.get(c.estado, 0) + 1
RECURSIVE contar_estados(_, _)
contar_estados(conteo, lista) ==
    IF lista = <<>> THEN conteo
    ELSE contar_estados(
             Put(conteo, Head(lista).estado,
                 (IF Head(lista).estado \in DOMAIN conteo
                  THEN conteo[Head(lista).estado] ELSE 0) + 1),
             Tail(lista))

\* list(conjunto): the lists that hold each element of the set once; the
\* order is that of the set's iteration, which is not fixed
list_de(conjunto) ==
    {l \in [1..Cardinality(conjunto) -> conjunto] :
        \A i, j \in DOMAIN l : i # j => l[i] # l[j]}

\* lista is the value of list(especialidades_activas)
estadisticas(lista) ==
    [total_pacientes |-> Cardinality(DOMAIN _pacientes),
     total_doctores |-> Cardinality(DOMAIN _doctores),
     total_citas |-> Cardinality(DOMAIN _citas),
     especialidades_activas |-> lista,
     citas_por_estado |-> contar_estados(conteo_inicial, values(_citas))]

(***************************************************************************)
(* Read operations as calls: the state is left alone, the result recorded. *)
(***************************************************************************)
Consulta(op, args, val) ==
    /\ ret' = Llamada(op, args, "none", val)
    /\ UNCHANGED <<tabla_pacientes, tabla_doctores, tabla_citas, sqlite_sequence,
                   _pacientes, _doctores, _citas, _ids_registrados, creados, hilos, caida>>

llamar_obtener_paciente(id_paciente) ==
    Consulta("obtener_paciente", <<id_paciente>>, obtener_paciente(id_paciente))

llamar_listar_pacientes == Consulta("listar_pacientes", <<>>, listar_pacientes)

llamar_buscar_pacientes_por_nombre(nombre) ==
    Consulta("buscar_pacientes_por_nombre", <<nombre>>,
             buscar_pacientes_por_nombre(nombre))

llamar_listar_citas_detalle ==
    Consulta("listar_citas_detalle", <<>>, listar_citas_detalle)

\* api_estadisticas: jsonify(gestor.estadisticas())
api_estadisticas ==
    \E lista \in list_de(especialidades_activas) :
        Consulta("estadisticas", <<>>, estadisticas(lista))

(***************************************************************************)
(* Start-up.  gestor = GestorInventario() finds the database file as an    *)
(* earlier run left it and loads every row into the dictionaries.          *)
(***************************************************************************)
BaseVacia ==
    [pacientes |-> EmptyDict, doctores |-> EmptyDict, citas |-> EmptyDict,
     seq |-> [pacientes |-> 0, doctores |-> 0, citas |-> 0]]

\* A database an earlier run left: one patient, one doctor, and two
\* appointments, the second for a patient id that has no row and with the
\* given text in its estado column.
BaseConDatos(estado) ==
    [pacientes |-> (1 :> Paciente(1, <<"A", "b">>, "0101", <<"0", "9">>, <<"a">>,
                                  "1990-01-01")),
     doctores |-> (1 :> Doctor(1, <<"B", "a">>, "Pediatría", <<"1">>, <<"b">>)),
     citas |-> (1 :> [id_cita |-> 1, id_paciente |-> 1, id_doctor |-> 1,
                      fecha |-> <<"0", "2">>, hora |-> <<"9">>,
                      motivo |-> "control", estado |-> "Confirmada"])
            @@ (2 :> [id_cita |-> 2, id_paciente |-> 2, id_doctor |-> 1,
                      fecha |-> <<"0", "1">>, hora |-> <<"1", "0">>,
                      motivo |-> "dolor", estado |-> estado]),
     seq |-> [pacientes |-> 1, doctores |-> 1, citas |-> 2]]

\* A database with two patients and two doctors and no appointment yet.
BaseClinica ==
    [pacientes |-> (1 :> Paciente(1, <<"A", "b">>, "0101", <<"0", "9">>, <<"a">>,
                                  "1990-01-01"))
                @@ (2 :> Paciente(2, <<"b", "a">>, "0202", <<"1">>, <<"b">>,
                                  "2000-12-31")),
     doctores |-> (1 :> Doctor(1, <<"B", "a">>, "Pediatría", <<"1">>, <<"b">>))
               @@ (2 :> Doctor(2, <<"a", "n">>, "Cardiología", <<"2">>, <<"a">>)),
     citas |-> EmptyDict,
     seq |-> [pacientes |-> 2, doctores |-> 2, citas |-> 0]]

\* A database with one patient only.
BaseUnPaciente ==
    [pacientes |-> (1 :> Paciente(1, <<"A", "b">>, "0101", <<"0", "9">>, <<"a">>,
                                  "1990-01-01")),
     doctores |-> EmptyDict,
     citas |-> EmptyDict,
     seq |-> [pacientes |-> 1, doctores |-> 0, citas |-> 0]]

\* databases as the program itself writes them
BasesIniciales == {BaseVacia, BaseClinica, BaseConDatos("Pendiente")}

\* The estado column is free TEXT: a row written by another program may
\* hold any text.
BasesAjenas == {BaseConDatos("Atendida")}

\* the threads in which the web server runs the request handlers
Hilos == {"A", "B"}

\* a thread that is inside no repository call
Libre == [pc |-> "libre"]

\* the process has not died so far
Nunca == [h \in Hilos |-> [pc |-> "nunca"]]

\* GestorInventario.__init__ on database bd
Arranque(bd) ==
    /\ tabla_pacientes = bd.pacientes
    /\ tabla_doctores = bd.doctores
    /\ tabla_citas = bd.citas
    /\ sqlite_sequence = bd.seq
    /\ _pacientes = _cargar_pacientes(bd.pacientes)
    /\ _doctores = _cargar_doctores(bd.doctores)
    /\ _citas = _cargar_citas(bd.citas)
    /\ _ids_registrados = DOMAIN bd.pacientes
    /\ ret = Llamada("__init__", <<>>, "none", None)
    /\ creados = [i \in 1..bd.seq.pacientes |-> i]
    /\ hilos = [h \in Hilos |-> Libre]
    /\ caida = Nunca

Init == \E bd \in BasesIniciales : Arranque(bd)

InitAjeno == \E bd \in BasesIniciales \cup BasesAjenas : Arranque(bd)

(***************************************************************************)
(* Inputs.  The web layer passes form fields, which are strings, and ids   *)
(* parsed as integers.                                                     *)
(***************************************************************************)
\* <<nombre, cedula, telefono, correo, fecha_nacimiento>>; the third repeats
\* the cedula of the first
FormulariosPaciente ==
    { <<<<"A", "b">>, "0101", <<"0", "9">>, <<"a">>, "1990-01-01">>,
      <<<<" ", "b", "a", " ">>, "0202", <<" ", "1">>, <<"b", " ">>, "2000-12-31">>,
      <<<<"B">>, "0101", <<"2">>, <<"b">>, "1985-05-05">> }

\* <<nombre, telefono, correo>>: padded with blanks, blank, clean
EdicionesPaciente ==
    { <<<<" ", "a", "B", " ">>, <<"1", " ">>, <<" ", "a">>>>,
      <<<<" ">>, <<"2">>, <<"b">>>>,
      <<<<"n", "a">>, <<"2">>, <<"b">>>> }

\* search texts: in some names, in other case, in no name, empty
TextosBusqueda == { <<"a">>, <<"A", "B">>, <<"b", "a">>, <<"9">>, <<>> }

(***************************************************************************)
(* The patient operations, on any start-up database.                       *)
(***************************************************************************)
IdsPaciente == 1..MaxPacientes

NextPacientes ==
    \/ \E f \in FormulariosPaciente :
          /\ CabePaciente(MaxPacientes) \/ cedula_duplicada(tabla_pacientes, f[2])
          /\ agregar_paciente(f[1], f[2], f[3], f[4], f[5])
    \/ \E id \in IdsPaciente, e \in EdicionesPaciente :
          actualizar_paciente(id, e[1], e[2], e[3])
    \/ \E id \in IdsPaciente : eliminar_paciente(id)
    \/ \E id \in IdsPaciente : llamar_obtener_paciente(id)
    \/ llamar_listar_pacientes
    \/ \E q \in TextosBusqueda : llamar_buscar_pacientes_por_nombre(q)

SpecPacientes == Init /\ [][NextPacientes]_vars

(***************************************************************************)
(* Claims about the patient operations.                                    *)
(***************************************************************************)
\* the set of positions at which sub occurs in s
Ocurrencias(sub, s) ==
    {i \in 0..(Len(s) - Len(sub)) : \A j \in 1..Len(sub) : s[i + j] = sub[j]}

\* C1: after a successful agregar_paciente, the id of the returned patient
\* is the newest id the store assigned and differs from every id assigned
\* before (also those of patients deleted since), and obtener_paciente with
\* that id returns a patient whose five fields are the submitted values.
C1_IdUnicoYCamposIguales ==
    (ret.op = "agregar_paciente" /\ ret.exc = "none") =>
        LET id == ret.val.id_paciente
            p == obtener_paciente(id)
        IN  /\ creados[Len(creados)] = id
            /\ \A i \in 1..(Len(creados) - 1) : creados[i] # id
            /\ p # None
            /\ p.id_paciente = id
            /\ p.nombre = ret.args[1]
            /\ p.cedula = ret.args[2]
            /\ p.telefono = ret.args[3]
            /\ p.correo = ret.args[4]
            /\ p.fecha_nacimiento = ret.args[5]

\* C1 witness: a patient registered after an earlier patient was deleted
C1_Testigo ==
    /\ ret.op = "agregar_paciente"
    /\ ret.exc = "none"
    /\ Len(creados) > Cardinality(DOMAIN tabla_pacientes)
    /\ ret.args[1] # strip(ret.args[1])

\* C2: agregar_paciente with a cedula that a stored patient already holds
\* raises the store's IntegrityError and leaves the pacientes table, the
\* patient cache and the result of listar_pacientes exactly as they were.
C2_CedulaRepetidaNoCambiaNada ==
    [][(/\ ret'.op = "agregar_paciente"
        /\ \E k \in DOMAIN tabla_pacientes : tabla_pacientes[k].cedula = ret'.args[2])
       => (/\ ret'.exc = "IntegrityError"
           /\ tabla_pacientes' = tabla_pacientes
           /\ _pacientes' = _pacientes
           /\ listar_pacientes' = listar_pacientes)]_vars

\* C2 witness: a registration refused for its cedula, with a patient cached
C2_Testigo ==
    /\ ret.op = "agregar_paciente"
    /\ ret.exc = "IntegrityError"
    /\ \E k \in DOMAIN _pacientes :
          /\ _pacientes[k].cedula = ret.args[2]
          /\ _pacientes[k].nombre # ret.args[1]

\* C10: buscar_pacientes_por_nombre(q) returns, once each, exactly the
\* cached patients whose lower-cased name contains the lower-cased q.
C10_BusquedaExacta ==
    (ret.op = "buscar_pacientes_por_nombre") =>
        LET q == lower(ret.args[1])
            coincide(p) == Ocurrencias(q, lower(p.nombre)) # {}
        IN  /\ \A i \in 1..Len(ret.val) :
                  /\ ret.val[i].id_paciente \in DOMAIN _pacientes
                  /\ ret.val[i] = _pacientes[ret.val[i].id_paciente]
                  /\ coincide(ret.val[i])
            /\ \A k \in DOMAIN _pacientes :
                  coincide(_pacientes[k]) =>
                      Cardinality({i \in 1..Len(ret.val) : ret.val[i] = _pacientes[k]}) = 1
            /\ Len(ret.val) <= Cardinality(DOMAIN _pacientes)
            /\ (\A k \in DOMAIN _pacientes : ~coincide(_pacientes[k])) => ret.val = <<>>

\* C10 witness: a search in another case than the name that finds one
\* patient and leaves another out
C10_Testigo ==
    /\ ret.op = "buscar_pacientes_por_nombre"
    /\ Len(ret.val) = 1
    /\ Cardinality(DOMAIN _pacientes) = 2
    /\ Ocurrencias(ret.args[1], ret.val[1].nombre) = {}

\* C10 witness of the empty result
C10_TestigoVacio ==
    /\ ret.op = "buscar_pacientes_por_nombre"
    /\ ret.val = <<>>
    /\ DOMAIN _pacientes # {}

(***************************************************************************)
(* The cascading deletes: appointments are created for any pair of ids,    *)
(* existing or not, and the patients and doctors the database held at      *)
(* start-up are deleted.                                                   *)
(***************************************************************************)
\* <<nombre, especialidad, telefono, correo>>: a listed specialty, and one
\* that is not in ESPECIALIDADES_VALIDAS
FormulariosDoctor ==
    { <<<<"B", "a">>, "Cardiología", <<"1">>, <<"b">>>>,
      <<<<"a", "n">>, "Homeopatía", <<"2">>, <<"a">>>> }

IdsDoctor == 1..MaxDoctores

IdsCita == 1..MaxCitas

\* the ids an appointment form may name: of the first rows, present or not
IdsReferidos == 1..2

NextCascada ==
    \/ /\ CabeCita(MaxCitas)
       /\ \E idp \in IdsReferidos, idd \in IdsReferidos :
             agendar_cita(idp, idd, <<"0", "1">>, <<"0", "9">>, "control")
    \/ \E id \in IdsPaciente : eliminar_paciente(id)
    \/ \E id \in IdsDoctor : eliminar_doctor(id)

SpecCascada == Init /\ [][NextCascada]_vars

\* the appointments of function citas (a table or the cache) that do not
\* reference id in column col are all in citas2, unchanged
LasDemasSiguen(citas, citas2, col, id) ==
    \A k \in DOMAIN citas :
        citas[k][col] # id => (k \in DOMAIN citas2 /\ citas2[k] = citas[k])

\* no appointment of function citas references id in column col
NingunaReferencia(citas, col, id) == \A k \in DOMAIN citas : citas[k][col] # id

\* C3: after a successful eliminar_paciente(id) (eliminar_doctor(id)), no
\* appointment with that id_paciente (id_doctor) is left in the cache, in
\* the citas table or in the result of listar_citas_detalle, and every
\* appointment that did not reference it is still in all three.
C3_CascadaCompleta ==
    /\ [][\A col \in {"id_paciente", "id_doctor"} :
            (/\ ret'.op = (IF col = "id_paciente" THEN "eliminar_paciente"
                                                   ELSE "eliminar_doctor")
             /\ ret'.val = TRUE)
            => LET id == ret'.args[1]
               IN  /\ NingunaReferencia(_citas', col, id)
                   /\ NingunaReferencia(tabla_citas', col, id)
                   /\ LasDemasSiguen(_citas, _citas', col, id)
                   /\ LasDemasSiguen(tabla_citas, tabla_citas', col, id)]_vars
    /\ [](\A col \in {"id_paciente", "id_doctor"} :
            (/\ ret.op = (IF col = "id_paciente" THEN "eliminar_paciente"
                                                  ELSE "eliminar_doctor")
             /\ ret.val = TRUE)
            => LET id == ret.args[1]
                   detalle == listar_citas_detalle
               IN  /\ \A i \in 1..Len(detalle) : detalle[i][col] # id
                   /\ \A k \in DOMAIN _citas :
                         \E i \in 1..Len(detalle) : detalle[i].id_cita = k)

\* C3 witness: a patient was deleted, no doctor ever was, and of three
\* appointments one is left: the delete removed two and kept a third
C3_Testigo ==
    /\ ret.op = "eliminar_paciente"
    /\ ret.val = TRUE
    /\ Len(creados) = Cardinality(DOMAIN _pacientes) + 1
    /\ sqlite_sequence.doctores = Cardinality(DOMAIN _doctores)
    /\ sqlite_sequence.citas = 3
    /\ Cardinality(DOMAIN tabla_citas) = 1
    /\ Cardinality(DOMAIN _citas) = 1

\* C3 witness for doctors: the delete of a doctor removed two appointments
\* and kept a third
C3_TestigoDoctor ==
    /\ ret.op = "eliminar_doctor"
    /\ ret.val = TRUE
    /\ Len(creados) = Cardinality(DOMAIN _pacientes)
    /\ sqlite_sequence.doctores = Cardinality(DOMAIN _doctores) + 1
    /\ sqlite_sequence.citas = 3
    /\ Cardinality(DOMAIN tabla_citas) = 1
    /\ Cardinality(DOMAIN _citas) = 1

(***************************************************************************)
(* The appointment statuses: appointments are created, their status is     *)
(* changed, they are deleted alone or with their patient or doctor, and    *)
(* the statistics are read.  The database at start-up may hold rows of     *)
(* another program.                                                        *)
(***************************************************************************)
\* the status texts a request may carry: the four of Cita.ESTADOS, one
\* that differs in case and one unknown
EstadosPedidos ==
    {"Pendiente", "Confirmada", "Completada", "Cancelada", "confirmada", "Atendida"}

NextEstados ==
    \/ /\ CabeCita(MaxCitas)
       /\ agendar_cita(1, 1, <<"0", "1">>, <<"0", "9">>, "control")
    \/ \E id \in IdsCita, e \in EstadosPedidos : actualizar_estado_cita(id, e)
    \/ \E id \in IdsCita : eliminar_cita(id)
    \/ \E id \in IdsReferidos : eliminar_paciente(id)
    \/ \E id \in IdsReferidos : eliminar_doctor(id)
    \/ api_estadisticas

SpecEstados == InitAjeno /\ [][NextEstados]_vars

LosCuatroEstados == {"Pendiente", "Confirmada", "Completada", "Cancelada"}

\* C4: actualizar_estado_cita(id, s) returns False and leaves the status of
\* every appointment as it was, in the table and in the cache, when id is
\* not a cached appointment or s is not one of the four statuses; otherwise
\* it returns True and the status of appointment id is s in both.
C4_EstadoValidoOIntacto ==
    [][(ret'.op = "actualizar_estado_cita") =>
         LET id == ret'.args[1]
             s == ret'.args[2]
         IN  /\ ret'.exc = "none"
             /\ IF id \notin DOMAIN _citas \/ s \notin LosCuatroEstados
                THEN /\ ret'.val = FALSE
                     /\ tabla_citas' = tabla_citas
                     /\ _citas' = _citas
                ELSE /\ ret'.val = TRUE
                     /\ id \in DOMAIN tabla_citas'
                     /\ tabla_citas'[id].estado = s
                     /\ id \in DOMAIN _citas'
                     /\ _citas'[id].estado = s]_vars

\* C4 witness: a status outside the four refused for a cached appointment
C4_Testigo ==
    /\ ret.op = "actualizar_estado_cita"
    /\ ret.val = FALSE
    /\ ret.args[1] \in DOMAIN _citas
    /\ ret.args[2] \notin LosCuatroEstados
    /\ _citas[ret.args[1]].estado = "Completada"

\* C4 witness of the success: the status changed in table and cache
C4_TestigoExito ==
    /\ ret.op = "actualizar_estado_cita"
    /\ ret.val = TRUE
    /\ _citas[ret.args[1]].estado = "Cancelada"
    /\ tabla_citas[ret.args[1]].estado = "Cancelada"

\* the sum of f[k] over the keys k in S
RECURSIVE Suma(_, _)
Suma(f, S) ==
    IF S = {} THEN 0
    ELSE LET k == CHOOSE x \in S : TRUE IN f[k] + Suma(f, S \ {k})

\* C8: in every state, the counts of citas_por_estado that estadisticas
\* reports add up to its total_citas, over all its entries and over the
\* entries of the four statuses.
C8_ConteosSumanTotal ==
    \A lista \in list_de(especialidades_activas) :
        LET e == estadisticas(lista)
        IN  /\ Suma(e.citas_por_estado, DOMAIN e.citas_por_estado) = e.total_citas
            /\ LosCuatroEstados \subseteq DOMAIN e.citas_por_estado
            /\ Suma(e.citas_por_estado, LosCuatroEstados) = e.total_citas
            /\ (ret.op = "estadisticas" =>
                  ret.val = estadisticas(ret.val.especialidades_activas))

\* C8 witness: the statistics read with a row of unknown status loaded at
\* start-up and appointments in several statuses
C8_Testigo ==
    /\ ret.op = "estadisticas"
    /\ ret.val.total_citas = 3
    /\ \E k \in DOMAIN tabla_citas : tabla_citas[k].estado \notin LosCuatroEstados
    /\ \E k \in DOMAIN _citas : _citas[k].estado = "Completada"

\* C9: estadisticas reports the numbers of cached patients, doctors and
\* appointments, and citas_por_estado has exactly the four status keys,
\* each with the number of cached appointments in that status; with
\* nothing cached, all seven numbers are zero.
C9_TotalesYConteos ==
    (ret.op = "estadisticas") =>
        LET e == ret.val
        IN  /\ e.total_pacientes = Cardinality(DOMAIN _pacientes)
            /\ e.total_doctores = Cardinality(DOMAIN _doctores)
            /\ e.total_citas = Cardinality(DOMAIN _citas)
            /\ DOMAIN e.citas_por_estado = LosCuatroEstados
            /\ \A s \in LosCuatroEstados :
                  e.citas_por_estado[s] =
                      Cardinality({k \in DOMAIN _citas : _citas[k].estado = s})
            /\ (DOMAIN _pacientes = {} /\ DOMAIN _doctores = {} /\ DOMAIN _citas = {})
                  => (/\ e.total_pacientes = 0
                      /\ e.total_doctores = 0
                      /\ e.total_citas = 0
                      /\ \A s \in LosCuatroEstados : e.citas_por_estado[s] = 0)

\* C9 witness: statistics with two appointments in one status, one in
\* another and none in a third
C9_Testigo ==
    /\ ret.op = "estadisticas"
    /\ ret.val.total_citas = 3
    /\ ret.val.total_pacientes = 1
    /\ \E s \in LosCuatroEstados : ret.val.citas_por_estado[s] = 2
    /\ ret.val.citas_por_estado["Cancelada"] = 0

\* C9 witness of the empty repository
C9_TestigoVacio ==
    /\ ret.op = "estadisticas"
    /\ DOMAIN _pacientes = {} /\ DOMAIN _doctores = {} /\ DOMAIN _citas = {}
    /\ sqlite_sequence.citas = 0

(***************************************************************************)
(* The joined listing: appointments on several dates and times are created *)
(* and deleted, and the listing is read.                                   *)
(***************************************************************************)
\* <<fecha, hora>>: the later date has the earlier time; two times on one
\* date; a date that is a prefix of another; "10" sorts before "9" as text
FechasHoras ==
    { <<<<"0", "2">>, <<"0", "9">>>>,
      <<<<"0", "1">>, <<"1", "0">>>>,
      <<<<"0", "1">>, <<"9">>>>,
      <<<<"0">>, <<"1", "0">>>> }

NextListado ==
    \/ /\ CabeCita(MaxCitas)
       /\ \E fh \in FechasHoras, idp \in IdsReferidos :
             agendar_cita(idp, 1, fh[1], fh[2], "control")
    \/ \E id \in IdsCita : eliminar_cita(id)
    \/ llamar_listar_citas_detalle

SpecListado == Init /\ [][NextListado]_vars

\* a is before b as text: at the first position where they differ a has
\* the smaller character, or a ends there and b goes on
AntesComoTexto(a, b) ==
    \E n \in 0..Len(a) :
        /\ n <= Len(b)
        /\ \A j \in 1..n : a[j] = b[j]
        /\ \/ (n = Len(a) /\ n < Len(b))
           \/ (n < Len(a) /\ n < Len(b) /\ ord(a[n + 1]) < ord(b[n + 1]))

\* (a.fecha, a.hora) <= (b.fecha, b.hora), the date compared first
NoDespues(a, b) ==
    \/ AntesComoTexto(a.fecha, b.fecha)
    \/ (a.fecha = b.fecha /\ (a.hora = b.hora \/ AntesComoTexto(a.hora, b.hora)))

\* C7: the result of listar_citas_detalle has one entry for each cached
\* appointment and no other, and each entry's (fecha, hora) is not after
\* that of the next entry, as text and with the date first.
C7_ListadoOrdenado ==
    (ret.op = "listar_citas_detalle") =>
        /\ Len(ret.val) = Cardinality(DOMAIN _citas)
        /\ \A k \in DOMAIN _citas :
              \E i \in 1..Len(ret.val) :
                  /\ ret.val[i].id_cita = k
                  /\ ret.val[i].fecha = _citas[k].fecha
                  /\ ret.val[i].hora = _citas[k].hora
        /\ \A i \in 1..(Len(ret.val) - 1) : NoDespues(ret.val[i], ret.val[i + 1])

\* C7 witness: a listing of three appointments whose order is not the
\* order of creation, two of them on one date
C7_Testigo ==
    /\ ret.op = "listar_citas_detalle"
    /\ Len(ret.val) = 3
    /\ ret.val[1].id_cita > ret.val[2].id_cita
    /\ ret.val[2].fecha = ret.val[3].fecha
    /\ ret.val[2].hora # ret.val[3].hora

(***************************************************************************)
(* The doctor operations.                                                  *)
(***************************************************************************)
\* <<nombre, especialidad, telefono, correo>> of an update
EdicionesDoctor ==
    { <<<<"B", "a">>, "Neurología", <<"1">>, <<"b">>>>,
      <<<<"a", "n">>, "Homeopatía", <<"2">>, <<"a">>>> }

NextDoctores ==
    \/ /\ CabeDoctor(MaxDoctores)
       /\ \E f \in FormulariosDoctor : agregar_doctor(f[1], f[2], f[3], f[4])
    \/ \E id \in IdsDoctor, e \in EdicionesDoctor :
          actualizar_doctor(id, e[1], e[2], e[3], e[4])
    \/ \E id \in IdsDoctor : eliminar_doctor(id)

SpecDoctores == Init /\ [][NextDoctores]_vars

\* C5: an update of a cached doctor with a specialty outside the ten of
\* ESPECIALIDADES_VALIDAS raises ValueError and leaves the doctor's
\* specialty as it was, in the table and in the cache; with one of the ten
\* it succeeds and that specialty is stored in both.
C5_EspecialidadValidada ==
    [][(ret'.op = "actualizar_doctor" /\ ret'.args[1] \in DOMAIN _doctores) =>
         LET id == ret'.args[1]
             especialidad == ret'.args[3]
         IN  IF especialidad \notin ESPECIALIDADES_VALIDAS
             THEN /\ ret'.exc = "ValueError"
                  /\ _doctores'[id].especialidad = _doctores[id].especialidad
                  /\ tabla_doctores'[id].especialidad = tabla_doctores[id].especialidad
             ELSE /\ ret'.exc = "none"
                  /\ _doctores'[id].especialidad = especialidad
                  /\ tabla_doctores'[id].especialidad = especialidad]_vars

\* the setter alone does what C5 says: used on any cached doctor with any
\* requested specialty, it raises and changes nothing, or stores the value
C5_SetterValida ==
    \A id \in DOMAIN _doctores :
        \A e \in {f[2] : f \in EdicionesDoctor \cup FormulariosDoctor} :
            LET r == Doctor_set_especialidad(_doctores[id], e)
            IN  IF e \in ESPECIALIDADES_VALIDAS
                THEN r.exc = "none" /\ r.obj.especialidad = e
                ELSE r.exc = "ValueError" /\ r.obj = _doctores[id]

(***************************************************************************)
(* The whole repository: every write operation.                            *)
(***************************************************************************)
\* one input of each kind for every operation: a form and the same form
\* again, a padded and a blank name, a specialty in the list and one
\* outside it, a status in the four and one outside them
Next ==
    \/ \E f \in {g \in FormulariosPaciente : g[1] # <<"B">>} :
          /\ CabePaciente(TopePacientes) \/ cedula_duplicada(tabla_pacientes, f[2])
          /\ agregar_paciente(f[1], f[2], f[3], f[4], f[5])
    \/ \E id \in 1..TopePacientes,
          e \in {g \in EdicionesPaciente : g[1] # strip(g[1])} :
          actualizar_paciente(id, e[1], e[2], e[3])
    \/ \E id \in 1..TopePacientes : eliminar_paciente(id)
    \/ /\ CabeDoctor(TopeDoctores)
       /\ \E f \in {g \in FormulariosDoctor : g[2] \in ESPECIALIDADES_VALIDAS} :
             agregar_doctor(f[1], f[2], f[3], f[4])
    \/ \E id \in 1..TopeDoctores,
          e \in {g \in EdicionesDoctor : g[2] \notin ESPECIALIDADES_VALIDAS} :
          actualizar_doctor(id, e[1], e[2], e[3], e[4])
    \/ \E id \in 1..TopeDoctores : eliminar_doctor(id)
    \/ /\ CabeCita(TopeCitas)
       /\ \E idp \in IdsReferidos :
             agendar_cita(idp, 1, <<"0", "1">>, <<"0", "9">>, "control")
    \/ \E id \in 1..TopeCitas, e \in {"Completada", "Atendida"} :
          actualizar_estado_cita(id, e)
    \/ \E id \in 1..TopeCitas : eliminar_cita(id)

\* the database is new or holds one patient
InitSpec == \E bd \in {BaseVacia, BaseUnPaciente} : Arranque(bd)

Spec == InitSpec /\ [][Next]_vars

(***************************************************************************)
(* Cache and store in lockstep.                                            *)
(***************************************************************************)
OperacionesDeEscritura ==
    {"agregar_paciente", "actualizar_paciente", "eliminar_paciente",
     "agregar_doctor", "actualizar_doctor", "eliminar_doctor",
     "agendar_cita", "actualizar_estado_cita", "eliminar_cita"}

\* the cached objects are those of the rows, field by field
EnSintonia(cache, tabla) ==
    /\ DOMAIN cache = DOMAIN tabla
    /\ \A k \in DOMAIN cache : cache[k] = tabla[k]

\* C6: after every write operation, whether it returned or raised, each
\* cache has the ids of its table and every cached object has the field
\* values of its row.
C6_CacheIgualAlmacen ==
    (ret.op \in OperacionesDeEscritura) =>
        /\ EnSintonia(_pacientes, tabla_pacientes)
        /\ EnSintonia(_doctores, tabla_doctores)
        /\ EnSintonia(_citas, tabla_citas)

(***************************************************************************)
(* Unknown identifiers.                                                    *)
(***************************************************************************)
\* the cache each update or delete operation looks its identifier up in
CacheDe(op) ==
    CASE op \in {"actualizar_paciente", "eliminar_paciente"} -> _pacientes
      [] op \in {"actualizar_doctor", "eliminar_doctor"} -> _doctores
      [] op = "eliminar_cita" -> _citas

\* C11: actualizar_paciente, actualizar_doctor, eliminar_paciente,
\* eliminar_doctor and eliminar_cita called with an identifier that is not
\* in the cache return False, raise nothing, and leave the three tables and
\* the three caches as they were.
C11_DesconocidoNoCambiaNada ==
    [][(/\ ret'.op \in {"actualizar_paciente", "actualizar_doctor",
                        "eliminar_paciente", "eliminar_doctor", "eliminar_cita"}
        /\ ret'.args[1] \notin DOMAIN CacheDe(ret'.op))
       => (/\ ret'.val = FALSE
           /\ ret'.exc = "none"
           /\ UNCHANGED <<tabla_pacientes, tabla_doctores, tabla_citas,
                          _pacientes, _doctores, _citas>>)]_vars

\* C11 witness: an update refused for an identifier that was deleted, while
\* another patient and an appointment are stored
C11_Testigo ==
    /\ ret.op = "actualizar_paciente"
    /\ ret.exc = "none"
    /\ ret.val = FALSE
    /\ ret.args[1] \notin DOMAIN _pacientes
    /\ ret.args[1] <= sqlite_sequence.pacientes
    /\ DOMAIN _pacientes # {}
    /\ DOMAIN _citas # {}

\* C11 witness for the deletes: a delete refused for an appointment that is
\* not cached, while others are
C11_TestigoCita ==
    /\ ret.op = "eliminar_cita"
    /\ ret.val = FALSE
    /\ ret.args[1] \notin DOMAIN _citas
    /\ DOMAIN _citas # {}

(***************************************************************************)
(* The status of a new appointment.                                        *)
(***************************************************************************)
\* C12: right after agendar_cita returns, the appointment it created has
\* status Pendiente in its row of table citas, in the cached object and in
\* the object returned, whatever ids, date, time and reason were passed.
C12_NuevaCitaPendiente ==
    (ret.op = "agendar_cita") =>
        LET id == ret.val.id_cita
        IN  /\ ret.exc = "none"
            /\ ret.val.estado = "Pendiente"
            /\ id \in DOMAIN tabla_citas
            /\ tabla_citas[id].estado = "Pendiente"
            /\ id \in DOMAIN _citas
            /\ _citas[id].estado = "Pendiente"
            /\ _citas[id].id_paciente = ret.args[1]
            /\ _citas[id].fecha = ret.args[3]

\* C12 witness: an appointment just created for a patient id that no row
\* has, while another appointment is Confirmada
C12_Testigo ==
    /\ ret.op = "agendar_cita"
    /\ ret.args[1] \notin DOMAIN _pacientes
    /\ \E k \in DOMAIN _citas : _citas[k].estado = "Confirmada"
    /\ _citas[ret.val.id_cita].estado = "Pendiente"

(***************************************************************************)
(* The status of every appointment.                                        *)
(***************************************************************************)
\* C13: in every state every cached appointment has one of the four
\* statuses; the constructor, given the estado of any stored row or any
\* requested text, keeps it when it is one of the four and puts Pendiente
\* otherwise; the setter, given a text outside the four, raises ValueError
\* and leaves the appointment as it was.
C13_EstadoSiempreValido ==
    /\ \A k \in DOMAIN _citas : _citas[k].estado \in LosCuatroEstados
    /\ \A k \in DOMAIN tabla_citas :
          LET f == tabla_citas[k]
              c == Cita(f.id_cita, f.id_paciente, f.id_doctor, f.fecha, f.hora,
                        f.motivo, f.estado)
          IN  c.estado = IF f.estado \in LosCuatroEstados THEN f.estado
                         ELSE "Pendiente"
    /\ \A k \in DOMAIN _citas : \A e \in EstadosPedidos :
          LET r == Cita_set_estado(_citas[k], e)
          IN  IF e \in LosCuatroEstados
              THEN r.exc = "none" /\ r.obj.estado = e
              ELSE r.exc = "ValueError" /\ r.obj = _citas[k]

\* C13 witness: a row loaded at start-up holds a text outside the four, its
\* cached appointment is Pendiente, and a request for that text was refused
C13_Testigo ==
    /\ ret.op = "actualizar_estado_cita"
    /\ ret.args[2] = "Atendida"
    /\ ret.args[1] \in DOMAIN _citas
    /\ tabla_citas[ret.args[1]].estado = "Atendida"
    /\ _citas[ret.args[1]].estado = "Pendiente"

(***************************************************************************)
(* The fields the domain classes validate.                                 *)
(***************************************************************************)
\* C14: in every state reached by agregar_doctor and actualizar_doctor
\* calls, every doctor, in the cache and in table doctores, has one of the
\* ten specialties of ESPECIALIDADES_VALIDAS.
C14_EspecialidadSiempreValida ==
    /\ \A k \in DOMAIN _doctores :
          _doctores[k].especialidad \in ESPECIALIDADES_VALIDAS
    /\ \A k \in DOMAIN tabla_doctores :
          tabla_doctores[k].especialidad \in ESPECIALIDADES_VALIDAS

\* C15: in every state reached by agregar_paciente and actualizar_paciente
\* calls, every patient's name, in the cache and in table pacientes, is
\* non-empty and has no blank at either end; and an update with a name of
\* blanks only raises ValueError and leaves the stored name as it was.
C15_NombreSiempreRecortado ==
    /\ \A k \in DOMAIN _pacientes :
          _pacientes[k].nombre # <<>> /\ strip(_pacientes[k].nombre) = _pacientes[k].nombre
    /\ \A k \in DOMAIN tabla_pacientes :
          /\ tabla_pacientes[k].nombre # <<>>
          /\ strip(tabla_pacientes[k].nombre) = tabla_pacientes[k].nombre
    /\ (/\ ret.op = "actualizar_paciente"
        /\ ret.args[1] \in DOMAIN _pacientes
        /\ strip(ret.args[2]) = <<>>)
       => (/\ ret.exc = "ValueError"
           /\ tabla_pacientes[ret.args[1]].nombre # ret.args[2])

\* the part of C15 that the name setter alone provides: in the cache, a
\* name that an update has set is non-empty and has no blank at either end
C15_NombreActualizadoRecortado ==
    (ret.op = "actualizar_paciente" /\ ret.exc = "none" /\ ret.val = TRUE) =>
        LET p == _pacientes[ret.args[1]]
        IN  p.nombre # <<>> /\ p.nombre = strip(ret.args[2])

(***************************************************************************)
(* The national ID.                                                        *)
(***************************************************************************)
\* no two entries of a patients table or cache have the same cedula
CedulasDistintas(d) ==
    \A j \in DOMAIN d : \A k \in DOMAIN d : d[j].cedula = d[k].cedula => j = k

\* entry k of d keeps its id_paciente and cedula in d2 if it is still there
MismaIdentidad(d, d2) ==
    \A k \in DOMAIN d \cap DOMAIN d2 :
        /\ d2[k].id_paciente = d[k].id_paciente
        /\ d2[k].cedula = d[k].cedula

\* C16: in every state no two patients, in the cache or in table
\* pacientes, have the same cedula, and every patient is stored under its
\* own id_paciente; and no operation changes the id_paciente or the cedula
\* of a patient that it leaves in the cache or the table.
C16_CedulaUnicaEInmutable ==
    /\ [][MismaIdentidad(_pacientes, _pacientes')
          /\ MismaIdentidad(tabla_pacientes, tabla_pacientes')]_vars
    /\ [](/\ CedulasDistintas(_pacientes)
          /\ CedulasDistintas(tabla_pacientes)
          /\ \A k \in DOMAIN _pacientes : _pacientes[k].id_paciente = k
          /\ \A k \in DOMAIN tabla_pacientes : tabla_pacientes[k].id_paciente = k)

\* C16 witness: two patients are stored and the second was updated just now
C16_Testigo ==
    /\ ret.op = "actualizar_paciente"
    /\ ret.exc = "none"
    /\ ret.val = TRUE
    /\ Cardinality(DOMAIN _pacientes) = 2
    /\ _pacientes[ret.args[1]].nombre = strip(ret.args[2])
    /\ _pacientes[ret.args[1]].cedula = "0202"

(***************************************************************************)
(* The repository calls step by step.  The web server runs each request    *)
(* handler in a thread of the one process, and all threads call the one    *)
(* gestor without a lock.  A call is split where another thread can run    *)
(* in between: after the test of the cache, after the store transaction,   *)
(* and between the assignments to the cache.  hilos[h] holds the call      *)
(* thread h is inside: its name, its arguments and the step it is at.      *)
(*                                                                         *)
(* The store: every call opens its own connection and `with ... as conn`   *)
(* commits when the block ends.  sqlite3 opens a transaction at the first  *)
(* INSERT, UPDATE or DELETE of a connection and keeps it open until        *)
(* conn.commit(); while it is open SQLite holds the write lock of the      *)
(* database file, so no other connection writes, and when the process dies *)
(* the statements executed so far are rolled back.  A call with one        *)
(* statement executes and commits it in one step; the two DELETE           *)
(* statements of a cascading delete and their commit are three steps, the  *)
(* rows as the open transaction sees them being kept in the thread (tx).   *)
(***************************************************************************)
\* thread h is inside call op at step pc
En(h, op, pc) == hilos[h].pc = pc /\ hilos[h].op = op

\* a thread other than h has a transaction open
Bloqueada(h) == \E g \in Hilos \ {h} : hilos[g].pc \in {"tx1", "tx2"}

\* thread h moves to step pc of call op
Sigue(h, op, args, pc) ==
    hilos' = [hilos EXCEPT ![h] = [pc |-> pc, op |-> op, args |-> args]]

\* the call thread h is inside ends: it returns val or raises exc
Termina(h, exc, val) ==
    /\ ret' = Llamada(hilos[h].op, hilos[h].args, exc, val)
    /\ hilos' = [hilos EXCEPT ![h] = Libre]

(***************************************************************************)
(* agregar_paciente, step by step.                                         *)
(***************************************************************************)
\* with sqlite3.connect(...): INSERT, commit, cursor.lastrowid
agregar_paciente_store(h, nombre, cedula, telefono, correo, fecha_nacimiento) ==
    LET nuevo_id == lastrowid(tabla_pacientes, sqlite_sequence.pacientes)
        args == <<nombre, cedula, telefono, correo, fecha_nacimiento>>
    IN  /\ hilos[h] = Libre
        /\ ~Bloqueada(h)
        /\ IF cedula_duplicada(tabla_pacientes, cedula)
           THEN /\ ret' = Llamada("agregar_paciente", args, "IntegrityError", None)
                /\ UNCHANGED <<tabla_pacientes, sqlite_sequence, creados, hilos>>
           ELSE /\ tabla_pacientes' =
                      Put(tabla_pacientes, nuevo_id,
                          Paciente(nuevo_id, nombre, cedula, telefono, correo,
                                   fecha_nacimiento))
                /\ sqlite_sequence' = [sqlite_sequence EXCEPT !.pacientes = nuevo_id]
                /\ creados' = Append(creados, nuevo_id)
                /\ hilos' = [hilos EXCEPT ![h] =
                                [pc |-> "cache", op |-> "agregar_paciente",
                                 args |-> args, nuevo_id |-> nuevo_id]]
                /\ ret' = ret
        /\ UNCHANGED <<tabla_doctores, tabla_citas, _pacientes, _doctores, _citas,
                       _ids_registrados, caida>>

\* p = Paciente(nuevo_id, ...); self._pacientes[nuevo_id] = p; return p
agregar_paciente_cache(h) ==
    /\ En(h, "agregar_paciente", "cache")
    /\ LET a == hilos[h].args
           p == Paciente(hilos[h].nuevo_id, a[1], a[2], a[3], a[4], a[5])
       IN  /\ _ids_registrados' = _ids_registrados \cup {p.id_paciente}
           /\ _pacientes' = Put(_pacientes, p.id_paciente, p)
           /\ Termina(h, "none", p)
    /\ UNCHANGED <<tabla_pacientes, tabla_doctores, tabla_citas, sqlite_sequence,
                   _doctores, _citas, creados, caida>>

(***************************************************************************)
(* actualizar_paciente, step by step.                                      *)
(***************************************************************************)
\* if id_paciente not in self._pacientes: return False
actualizar_paciente_llamar(h, id_paciente, nombre, telefono, correo) ==
    LET args == <<id_paciente, nombre, telefono, correo>>
    IN  /\ hilos[h] = Libre
        /\ IF id_paciente \notin DOMAIN _pacientes
           THEN /\ ret' = Llamada("actualizar_paciente", args, "none", FALSE)
                /\ hilos' = hilos
           ELSE /\ Sigue(h, "actualizar_paciente", args, "store")
                /\ ret' = ret
        /\ UNCHANGED <<tabla_pacientes, tabla_doctores, tabla_citas,
                       sqlite_sequence, _pacientes, _doctores, _citas,
                       _ids_registrados, creados, caida>>

\* with sqlite3.connect(...): UPDATE pacientes ..., commit
actualizar_paciente_store(h) ==
    /\ En(h, "actualizar_paciente", "store")
    /\ ~Bloqueada(h)
    /\ LET a == hilos[h].args
       IN  /\ tabla_pacientes' = UPDATE_pacientes(tabla_pacientes, a[1], a[2], a[3], a[4])
           /\ Sigue(h, "actualizar_paciente", a, "cache_nombre")
    /\ UNCHANGED <<tabla_doctores, tabla_citas, sqlite_sequence, _pacientes,
                   _doctores, _citas, _ids_registrados, ret, creados, caida>>

\* p = self._pacientes[id_paciente]; p.nombre = nombre
actualizar_paciente_cache_nombre(h) ==
    /\ En(h, "actualizar_paciente", "cache_nombre")
    /\ LET a == hilos[h].args
       IN  IF a[1] \notin DOMAIN _pacientes
           THEN \* another thread deleted the patient since the test
                /\ Termina(h, "KeyError", None)
                /\ _pacientes' = _pacientes
           ELSE LET r == Paciente_set_nombre(_pacientes[a[1]], a[2])
                IN  IF r.exc # "none"
                    THEN /\ Termina(h, r.exc, None)
                         /\ _pacientes' = _pacientes
                    ELSE /\ _pacientes' = [_pacientes EXCEPT ![a[1]] = r.obj]
                         /\ Sigue(h, "actualizar_paciente", a, "cache_telefono")
                         /\ ret' = ret
    /\ UNCHANGED <<tabla_pacientes, tabla_doctores, tabla_citas, sqlite_sequence,
                   _doctores, _citas, _ids_registrados, creados, caida>>

\* p.telefono = telefono (on the object p; it shows in the cache while the
\* patient is still an entry of it)
actualizar_paciente_cache_telefono(h) ==
    /\ En(h, "actualizar_paciente", "cache_telefono")
    /\ LET a == hilos[h].args
       IN  /\ _pacientes' =
                  IF a[1] \in DOMAIN _pacientes
                  THEN [_pacientes EXCEPT ![a[1]] = Paciente_set_telefono(@, a[3])]
                  ELSE _pacientes
           /\ Sigue(h, "actualizar_paciente", a, "cache_correo")
    /\ UNCHANGED <<tabla_pacientes, tabla_doctores, tabla_citas, sqlite_sequence,
                   _doctores, _citas, _ids_registrados, ret, creados, caida>>

\* p.correo = correo; return True
actualizar_paciente_cache_correo(h) ==
    /\ En(h, "actualizar_paciente", "cache_correo")
    /\ LET a == hilos[h].args
       IN  /\ _pacientes' =
                  IF a[1] \in DOMAIN _pacientes
                  THEN [_pacientes EXCEPT ![a[1]] = Paciente_set_correo(@, a[4])]
                  ELSE _pacientes
           /\ Termina(h, "none", TRUE)
    /\ UNCHANGED <<tabla_pacientes, tabla_doctores, tabla_citas, sqlite_sequence,
                   _doctores, _citas, _ids_registrados, creados, caida>>

(***************************************************************************)
(* eliminar_paciente, step by step.                                        *)
(***************************************************************************)
\* the delete that removes the patient from the dictionary right after the
\* test, before any statement reaches the store
eliminar_paciente_llamar_borrando(h, id_paciente) ==
    /\ hilos[h] = Libre
    /\ IF id_paciente \notin DOMAIN _pacientes
       THEN /\ ret' = Llamada("eliminar_paciente", <<id_paciente>>, "none", FALSE)
            /\ hilos' = hilos
            /\ _pacientes' = _pacientes
       ELSE /\ Sigue(h, "eliminar_paciente", <<id_paciente>>, "store")
            /\ _pacientes' = Del(_pacientes, id_paciente)
            /\ ret' = ret
    /\ UNCHANGED <<tabla_pacientes, tabla_doctores, tabla_citas, sqlite_sequence,
                   _doctores, _citas, _ids_registrados, creados, caida>>

\* if id_paciente not in self._pacientes: return False
eliminar_paciente_llamar(h, id_paciente) ==
    /\ hilos[h] = Libre
    /\ IF id_paciente \notin DOMAIN _pacientes
       THEN /\ ret' = Llamada("eliminar_paciente", <<id_paciente>>, "none", FALSE)
            /\ hilos' = hilos
       ELSE /\ Sigue(h, "eliminar_paciente", <<id_paciente>>, "store")
            /\ ret' = ret
    /\ UNCHANGED <<tabla_pacientes, tabla_doctores, tabla_citas, sqlite_sequence,
                   _pacientes, _doctores, _citas, _ids_registrados, creados, caida>>

\* the first DELETE written to the database file at once, as if the
\* statement were committed on its own
eliminar_paciente_tx1_con_commit(h) ==
    /\ En(h, "eliminar_paciente", "store")
    /\ ~Bloqueada(h)
    /\ LET id == hilos[h].args[1]
       IN  /\ tabla_citas' = DELETE_citas_id_paciente(tabla_citas, id)
           /\ hilos' = [hilos EXCEPT ![h] =
                           [pc |-> "tx1", op |-> "eliminar_paciente", args |-> <<id>>,
                            antes |-> tabla_citas,
                            tx |-> [citas |-> DELETE_citas_id_paciente(tabla_citas, id),
                                    entidad |-> tabla_pacientes]]]
    /\ UNCHANGED <<tabla_pacientes, tabla_doctores, sqlite_sequence,
                   _pacientes, _doctores, _citas, _ids_registrados, ret, creados,
                   caida>>

\* conn.execute("DELETE FROM citas WHERE id_paciente=?"): the transaction
\* opens; antes remembers the appointments stored when it opened
eliminar_paciente_tx1(h) ==
    /\ En(h, "eliminar_paciente", "store")
    /\ ~Bloqueada(h)
    /\ LET id == hilos[h].args[1]
       IN  hilos' = [hilos EXCEPT ![h] =
                        [pc |-> "tx1", op |-> "eliminar_paciente", args |-> <<id>>,
                         antes |-> tabla_citas,
                         tx |-> [citas |-> DELETE_citas_id_paciente(tabla_citas, id),
                                 entidad |-> tabla_pacientes]]]
    /\ UNCHANGED <<tabla_pacientes, tabla_doctores, tabla_citas, sqlite_sequence,
                   _pacientes, _doctores, _citas, _ids_registrados, ret, creados,
                   caida>>

\* conn.execute("DELETE FROM pacientes WHERE id_paciente=?"), in the same
\* transaction
eliminar_paciente_tx2(h) ==
    /\ En(h, "eliminar_paciente", "tx1")
    /\ hilos' = [hilos EXCEPT ![h].pc = "tx2",
                              ![h].tx.entidad = Del(@, hilos[h].args[1])]
    /\ UNCHANGED <<tabla_pacientes, tabla_doctores, tabla_citas, sqlite_sequence,
                   _pacientes, _doctores, _citas, _ids_registrados, ret, creados,
                   caida>>

\* conn.commit(): both deletions reach the database file together
eliminar_paciente_commit(h) ==
    /\ En(h, "eliminar_paciente", "tx2")
    /\ tabla_citas' = hilos[h].tx.citas
    /\ tabla_pacientes' = hilos[h].tx.entidad
    /\ Sigue(h, "eliminar_paciente", hilos[h].args, "cache_citas")
    /\ UNCHANGED <<tabla_doctores, sqlite_sequence, _pacientes, _doctores, _citas,
                   _ids_registrados, ret, creados, caida>>

\* citas_a_borrar = [...]; for cid in citas_a_borrar: del self._citas[cid]
eliminar_paciente_cache_citas(h) ==
    /\ En(h, "eliminar_paciente", "cache_citas")
    /\ _citas' = borrar_citas_de_paciente(_citas, hilos[h].args[1])
    /\ Sigue(h, "eliminar_paciente", hilos[h].args, "cache_entidad")
    /\ UNCHANGED <<tabla_pacientes, tabla_doctores, tabla_citas, sqlite_sequence,
                   _pacientes, _doctores, _ids_registrados, ret, creados, caida>>

\* del self._pacientes[id_paciente]; return True
eliminar_paciente_cache_entidad(h) ==
    /\ En(h, "eliminar_paciente", "cache_entidad")
    /\ IF hilos[h].args[1] \in DOMAIN _pacientes
       THEN /\ _pacientes' = Del(_pacientes, hilos[h].args[1])
            /\ Termina(h, "none", TRUE)
       ELSE \* another thread deleted the patient since the test
            /\ _pacientes' = _pacientes
            /\ Termina(h, "KeyError", None)
    /\ UNCHANGED <<tabla_pacientes, tabla_doctores, tabla_citas, sqlite_sequence,
                   _doctores, _citas, _ids_registrados, creados, caida>>

(***************************************************************************)
(* actualizar_doctor, step by step.                                        *)
(***************************************************************************)
\* if id_doctor not in self._doctores: return False
actualizar_doctor_llamar(h, id_doctor, nombre, especialidad, telefono, correo) ==
    LET args == <<id_doctor, nombre, especialidad, telefono, correo>>
    IN  /\ hilos[h] = Libre
        /\ IF id_doctor \notin DOMAIN _doctores
           THEN /\ ret' = Llamada("actualizar_doctor", args, "none", FALSE)
                /\ hilos' = hilos
           ELSE /\ Sigue(h, "actualizar_doctor", args, "store")
                /\ ret' = ret
        /\ UNCHANGED <<tabla_pacientes, tabla_doctores, tabla_citas,
                       sqlite_sequence, _pacientes, _doctores, _citas,
                       _ids_registrados, creados, caida>>

\* with sqlite3.connect(...): UPDATE doctores ..., commit
actualizar_doctor_store(h) ==
    /\ En(h, "actualizar_doctor", "store")
    /\ ~Bloqueada(h)
    /\ LET a == hilos[h].args
       IN  /\ tabla_doctores' =
                  UPDATE_doctores(tabla_doctores, a[1], a[2], a[3], a[4], a[5])
           /\ Sigue(h, "actualizar_doctor", a, "cache")
    /\ UNCHANGED <<tabla_pacientes, tabla_citas, sqlite_sequence, _pacientes,
                   _doctores, _citas, _ids_registrados, ret, creados, caida>>

\* d = self._doctores[id_doctor]; self._doctores[id_doctor] = Doctor(...); return True
actualizar_doctor_cache(h) ==
    /\ En(h, "actualizar_doctor", "cache")
    /\ LET a == hilos[h].args
       IN  IF a[1] \notin DOMAIN _doctores
           THEN \* another thread deleted the doctor since the test
                /\ _doctores' = _doctores
                /\ Termina(h, "KeyError", None)
           ELSE /\ _doctores' = [_doctores EXCEPT ![a[1]] =
                                    Doctor(a[1], a[2], a[3], a[4], a[5])]
                /\ Termina(h, "none", TRUE)
    /\ UNCHANGED <<tabla_pacientes, tabla_doctores, tabla_citas, sqlite_sequence,
                   _pacientes, _citas, _ids_registrados, creados, caida>>

(***************************************************************************)
(* eliminar_doctor, step by step.                                          *)
(***************************************************************************)
\* if id_doctor not in self._doctores: return False
eliminar_doctor_llamar(h, id_doctor) ==
    /\ hilos[h] = Libre
    /\ IF id_doctor \notin DOMAIN _doctores
       THEN /\ ret' = Llamada("eliminar_doctor", <<id_doctor>>, "none", FALSE)
            /\ hilos' = hilos
       ELSE /\ Sigue(h, "eliminar_doctor", <<id_doctor>>, "store")
            /\ ret' = ret
    /\ UNCHANGED <<tabla_pacientes, tabla_doctores, tabla_citas, sqlite_sequence,
                   _pacientes, _doctores, _citas, _ids_registrados, creados, caida>>

\* conn.execute("DELETE FROM citas WHERE id_doctor=?"): the transaction opens
eliminar_doctor_tx1(h) ==
    /\ En(h, "eliminar_doctor", "store")
    /\ ~Bloqueada(h)
    /\ LET id == hilos[h].args[1]
       IN  hilos' = [hilos EXCEPT ![h] =
                        [pc |-> "tx1", op |-> "eliminar_doctor", args |-> <<id>>,
                         antes |-> tabla_citas,
                         tx |-> [citas |-> DELETE_citas_id_doctor(tabla_citas, id),
                                 entidad |-> tabla_doctores]]]
    /\ UNCHANGED <<tabla_pacientes, tabla_doctores, tabla_citas, sqlite_sequence,
                   _pacientes, _doctores, _citas, _ids_registrados, ret, creados,
                   caida>>

\* conn.execute("DELETE FROM doctores WHERE id_doctor=?"), in the same transaction
eliminar_doctor_tx2(h) ==
    /\ En(h, "eliminar_doctor", "tx1")
    /\ hilos' = [hilos EXCEPT ![h].pc = "tx2",
                              ![h].tx.entidad = Del(@, hilos[h].args[1])]
    /\ UNCHANGED <<tabla_pacientes, tabla_doctores, tabla_citas, sqlite_sequence,
                   _pacientes, _doctores, _citas, _ids_registrados, ret, creados,
                   caida>>

\* conn.commit(): both deletions reach the database file together
eliminar_doctor_commit(h) ==
    /\ En(h, "eliminar_doctor", "tx2")
    /\ tabla_citas' = hilos[h].tx.citas
    /\ tabla_doctores' = hilos[h].tx.entidad
    /\ Sigue(h, "eliminar_doctor", hilos[h].args, "cache_citas")
    /\ UNCHANGED <<tabla_pacientes, sqlite_sequence, _pacientes, _doctores, _citas,
                   _ids_registrados, ret, creados, caida>>

\* citas_a_borrar = [...]; for cid in citas_a_borrar: del self._citas[cid]
eliminar_doctor_cache_citas(h) ==
    /\ En(h, "eliminar_doctor", "cache_citas")
    /\ _citas' = borrar_citas_de_doctor(_citas, hilos[h].args[1])
    /\ Sigue(h, "eliminar_doctor", hilos[h].args, "cache_entidad")
    /\ UNCHANGED <<tabla_pacientes, tabla_doctores, tabla_citas, sqlite_sequence,
                   _pacientes, _doctores, _ids_registrados, ret, creados, caida>>

\* del self._doctores[id_doctor]; return True
eliminar_doctor_cache_entidad(h) ==
    /\ En(h, "eliminar_doctor", "cache_entidad")
    /\ IF hilos[h].args[1] \in DOMAIN _doctores
       THEN /\ _doctores' = Del(_doctores, hilos[h].args[1])
            /\ Termina(h, "none", TRUE)
       ELSE \* another thread deleted the doctor since the test
            /\ _doctores' = _doctores
            /\ Termina(h, "KeyError", None)
    /\ UNCHANGED <<tabla_pacientes, tabla_doctores, tabla_citas, sqlite_sequence,
                   _pacientes, _citas, _ids_registrados, creados, caida>>

(***************************************************************************)
(* actualizar_estado_cita, step by step.                                   *)
(***************************************************************************)
\* if id_cita not in self._citas or nuevo_estado not in Cita.ESTADOS: return False
actualizar_estado_cita_llamar(h, id_cita, nuevo_estado) ==
    LET args == <<id_cita, nuevo_estado>>
    IN  /\ hilos[h] = Libre
        /\ IF id_cita \notin DOMAIN _citas \/ ~en_ESTADOS(nuevo_estado)
           THEN /\ ret' = Llamada("actualizar_estado_cita", args, "none", FALSE)
                /\ hilos' = hilos
           ELSE /\ Sigue(h, "actualizar_estado_cita", args, "store")
                /\ ret' = ret
        /\ UNCHANGED <<tabla_pacientes, tabla_doctores, tabla_citas,
                       sqlite_sequence, _pacientes, _doctores, _citas,
                       _ids_registrados, creados, caida>>

\* with sqlite3.connect(...): UPDATE citas SET estado=? ..., commit
actualizar_estado_cita_store(h) ==
    /\ En(h, "actualizar_estado_cita", "store")
    /\ ~Bloqueada(h)
    /\ tabla_citas' = UPDATE_citas_estado(tabla_citas, hilos[h].args[1], hilos[h].args[2])
    /\ Sigue(h, "actualizar_estado_cita", hilos[h].args, "cache")
    /\ UNCHANGED <<tabla_pacientes, tabla_doctores, sqlite_sequence, _pacientes,
                   _doctores, _citas, _ids_registrados, ret, creados, caida>>

\* self._citas[id_cita].estado = nuevo_estado; return True
actualizar_estado_cita_cache(h) ==
    /\ En(h, "actualizar_estado_cita", "cache")
    /\ LET a == hilos[h].args
       IN  IF a[1] \notin DOMAIN _citas
           THEN \* another thread deleted the appointment since the test
                /\ _citas' = _citas
                /\ Termina(h, "KeyError", None)
           ELSE LET r == Cita_set_estado(_citas[a[1]], a[2])
                IN  /\ _citas' = [_citas EXCEPT ![a[1]] = r.obj]
                    /\ Termina(h, r.exc, IF r.exc = "none" THEN TRUE ELSE None)
    /\ UNCHANGED <<tabla_pacientes, tabla_doctores, tabla_citas, sqlite_sequence,
                   _pacientes, _doctores, _ids_registrados, creados, caida>>

(***************************************************************************)
(* agregar_doctor, agendar_cita and eliminar_cita, step by step.           *)
(***************************************************************************)
\* with sqlite3.connect(...): INSERT INTO doctores, commit, cursor.lastrowid
agregar_doctor_store(h, nombre, especialidad, telefono, correo) ==
    LET nuevo_id == lastrowid(tabla_doctores, sqlite_sequence.doctores)
        args == <<nombre, especialidad, telefono, correo>>
    IN  /\ hilos[h] = Libre
        /\ ~Bloqueada(h)
        /\ tabla_doctores' =
              Put(tabla_doctores, nuevo_id,
                  Doctor(nuevo_id, nombre, especialidad, telefono, correo))
        /\ sqlite_sequence' = [sqlite_sequence EXCEPT !.doctores = nuevo_id]
        /\ hilos' = [hilos EXCEPT ![h] =
                        [pc |-> "cache", op |-> "agregar_doctor",
                         args |-> args, nuevo_id |-> nuevo_id]]
        /\ UNCHANGED <<tabla_pacientes, tabla_citas, _pacientes, _doctores, _citas,
                       _ids_registrados, ret, creados, caida>>

\* d = Doctor(nuevo_id, ...); self._doctores[nuevo_id] = d; return d
agregar_doctor_cache(h) ==
    /\ En(h, "agregar_doctor", "cache")
    /\ LET a == hilos[h].args
           d == Doctor(hilos[h].nuevo_id, a[1], a[2], a[3], a[4])
       IN  /\ _doctores' = Put(_doctores, d.id_doctor, d)
           /\ Termina(h, "none", d)
    /\ UNCHANGED <<tabla_pacientes, tabla_doctores, tabla_citas, sqlite_sequence,
                   _pacientes, _citas, _ids_registrados, creados, caida>>

\* with sqlite3.connect(...): INSERT INTO citas ... 'Pendiente', commit, lastrowid
agendar_cita_store(h, id_paciente, id_doctor, fecha, hora, motivo) ==
    LET nuevo_id == lastrowid(tabla_citas, sqlite_sequence.citas)
        args == <<id_paciente, id_doctor, fecha, hora, motivo>>
        fila == [id_cita |-> nuevo_id, id_paciente |-> id_paciente,
                 id_doctor |-> id_doctor, fecha |-> fecha, hora |-> hora,
                 motivo |-> motivo, estado |-> "Pendiente"]
    IN  /\ hilos[h] = Libre
        /\ ~Bloqueada(h)
        /\ tabla_citas' = Put(tabla_citas, nuevo_id, fila)
        /\ sqlite_sequence' = [sqlite_sequence EXCEPT !.citas = nuevo_id]
        /\ hilos' = [hilos EXCEPT ![h] =
                        [pc |-> "cache", op |-> "agendar_cita",
                         args |-> args, nuevo_id |-> nuevo_id]]
        /\ UNCHANGED <<tabla_pacientes, tabla_doctores, _pacientes, _doctores,
                       _citas, _ids_registrados, ret, creados, caida>>

\* c = Cita(nuevo_id, ...); self._citas[nuevo_id] = c; return c
agendar_cita_cache(h) ==
    /\ En(h, "agendar_cita", "cache")
    /\ LET a == hilos[h].args
           c == Cita(hilos[h].nuevo_id, a[1], a[2], a[3], a[4], a[5], "Pendiente")
       IN  /\ _citas' = Put(_citas, c.id_cita, c)
           /\ Termina(h, "none", c)
    /\ UNCHANGED <<tabla_pacientes, tabla_doctores, tabla_citas, sqlite_sequence,
                   _pacientes, _doctores, _ids_registrados, creados, caida>>

\* if id_cita not in self._citas: return False
eliminar_cita_llamar(h, id_cita) ==
    /\ hilos[h] = Libre
    /\ IF id_cita \notin DOMAIN _citas
       THEN /\ ret' = Llamada("eliminar_cita", <<id_cita>>, "none", FALSE)
            /\ hilos' = hilos
       ELSE /\ Sigue(h, "eliminar_cita", <<id_cita>>, "store")
            /\ ret' = ret
    /\ UNCHANGED <<tabla_pacientes, tabla_doctores, tabla_citas, sqlite_sequence,
                   _pacientes, _doctores, _citas, _ids_registrados, creados, caida>>

\* with sqlite3.connect(...): DELETE FROM citas WHERE id_cita=?, commit
eliminar_cita_store(h) ==
    /\ En(h, "eliminar_cita", "store")
    /\ ~Bloqueada(h)
    /\ tabla_citas' = Del(tabla_citas, hilos[h].args[1])
    /\ Sigue(h, "eliminar_cita", hilos[h].args, "cache")
    /\ UNCHANGED <<tabla_pacientes, tabla_doctores, sqlite_sequence, _pacientes,
                   _doctores, _citas, _ids_registrados, ret, creados, caida>>

\* del self._citas[id_cita]; return True
eliminar_cita_cache(h) ==
    /\ En(h, "eliminar_cita", "cache")
    /\ IF hilos[h].args[1] \notin DOMAIN _citas
       THEN \* another thread deleted the appointment since the test
            /\ _citas' = _citas
            /\ Termina(h, "KeyError", None)
       ELSE /\ _citas' = Del(_citas, hilos[h].args[1])
            /\ Termina(h, "none", TRUE)
    /\ UNCHANGED <<tabla_pacientes, tabla_doctores, tabla_citas, sqlite_sequence,
                   _pacientes, _doctores, _ids_registrados, creados, caida>>

(***************************************************************************)
(* The process dies and is started again.                                  *)
(***************************************************************************)
\* The process dies while some thread is inside a call: the dictionaries
\* and the open transaction are lost, the database file keeps what was
\* committed.  Started again, gestor = GestorInventario() loads the rows.
caida_y_arranque ==
    /\ caida = Nunca
    /\ \E h \in Hilos : hilos[h] # Libre
    /\ caida' = hilos
    /\ hilos' = [h \in Hilos |-> Libre]
    /\ _pacientes' = _cargar_pacientes(tabla_pacientes)
    /\ _doctores' = _cargar_doctores(tabla_doctores)
    /\ _citas' = _cargar_citas(tabla_citas)
    /\ _ids_registrados' = DOMAIN tabla_pacientes
    /\ ret' = Llamada("__init__", <<>>, "none", None)
    /\ UNCHANGED <<tabla_pacientes, tabla_doctores, tabla_citas, sqlite_sequence,
                   creados>>

(***************************************************************************)
(* One request at a time, step by step, and the process may die once at    *)
(* any step.                                                                *)
(***************************************************************************)
\* the thread that serves the requests when they come one at a time
UnHilo == {"A"}

\* the process has not died so far
Viva == caida = Nunca

\* The calls of one thread, step by step, with the inputs of Next.  The
\* calls are followed until the process has died and started again.
PasosDe(h) ==
    \/ \E f \in {g \in FormulariosPaciente : g[1] # <<"A", "b">>} :
          /\ Viva
          /\ CabePaciente(TopePacientes) \/ cedula_duplicada(tabla_pacientes, f[2])
          /\ agregar_paciente_store(h, f[1], f[2], f[3], f[4], f[5])
    \/ Viva /\ agregar_paciente_cache(h)
    \/ \E id \in 1..TopePacientes,
          e \in {g \in EdicionesPaciente : g[1] # strip(g[1])} :
          Viva /\ actualizar_paciente_llamar(h, id, e[1], e[2], e[3])
    \/ Viva /\ actualizar_paciente_store(h)
    \/ Viva /\ actualizar_paciente_cache_nombre(h)
    \/ Viva /\ actualizar_paciente_cache_telefono(h)
    \/ Viva /\ actualizar_paciente_cache_correo(h)
    \/ \E id \in 1..TopePacientes : Viva /\ eliminar_paciente_llamar(h, id)
    \/ Viva /\ eliminar_paciente_tx1(h)
    \/ Viva /\ eliminar_paciente_tx2(h)
    \/ Viva /\ eliminar_paciente_commit(h)
    \/ Viva /\ eliminar_paciente_cache_citas(h)
    \/ Viva /\ eliminar_paciente_cache_entidad(h)
    \/ \E id \in 1..TopeDoctores,
          e \in {g \in EdicionesDoctor : g[2] \notin ESPECIALIDADES_VALIDAS} :
          Viva /\ actualizar_doctor_llamar(h, id, e[1], e[2], e[3], e[4])
    \/ Viva /\ actualizar_doctor_store(h)
    \/ Viva /\ actualizar_doctor_cache(h)
    \/ \E id \in 1..TopeDoctores : Viva /\ eliminar_doctor_llamar(h, id)
    \/ Viva /\ eliminar_doctor_tx1(h)
    \/ Viva /\ eliminar_doctor_tx2(h)
    \/ Viva /\ eliminar_doctor_commit(h)
    \/ Viva /\ eliminar_doctor_cache_citas(h)
    \/ Viva /\ eliminar_doctor_cache_entidad(h)
    \/ \E id \in 1..TopeCitas, e \in {"Completada", "Atendida"} :
          Viva /\ actualizar_estado_cita_llamar(h, id, e)
    \/ Viva /\ actualizar_estado_cita_store(h)
    \/ Viva /\ actualizar_estado_cita_cache(h)
    \/ \E f \in {g \in FormulariosDoctor : g[2] \notin ESPECIALIDADES_VALIDAS} :
          /\ Viva
          /\ CabeDoctor(TopeDoctores)
          /\ agregar_doctor_store(h, f[1], f[2], f[3], f[4])
    \/ Viva /\ agregar_doctor_cache(h)
    \/ \E idp \in 1..TopePacientes :
          /\ Viva
          /\ CabeCita(TopeCitas)
          /\ idp \in DOMAIN _pacientes
          /\ agendar_cita_store(h, idp, 1, <<"0", "1">>, <<"0", "9">>, "control")
    \/ Viva /\ agendar_cita_cache(h)
    \/ \E id \in 1..TopeCitas : Viva /\ eliminar_cita_llamar(h, id)
    \/ Viva /\ eliminar_cita_store(h)
    \/ Viva /\ eliminar_cita_cache(h)

NextCaidas ==
    \/ \E h \in UnHilo : PasosDe(h)
    \/ caida_y_arranque

\* the database holds one patient, or rows of the three tables
InitCaidas == \E bd \in {BaseUnPaciente, BaseConDatos("Pendiente")} : Arranque(bd)

SpecCaidas == InitCaidas /\ [][NextCaidas]_vars

(***************************************************************************)
(* Two requests at once: two threads update the same patient and the same  *)
(* doctor, each with its own values.                                       *)
(***************************************************************************)
\* <<nombre, telefono, correo>> that each thread submits: texts that the
\* setters store as they are
EdicionPacienteDe(h) ==
    IF h = "A" THEN <<<<"n", "a">>, <<"2">>, <<"b">>>>
    ELSE <<<<"a", "B">>, <<"1">>, <<"a">>>>

\* <<nombre, especialidad, telefono, correo>> that each thread submits
EdicionDoctorDe(h) ==
    IF h = "A" THEN <<<<"a", "n">>, "Neurología", <<"2">>, <<"a">>>>
    ELSE <<<<"B">>, "Cardiología", <<"9">>, <<"b">>>>

NextCarrera ==
    \E h \in Hilos :
        \/ \E id \in IdsPaciente :
              actualizar_paciente_llamar(h, id, EdicionPacienteDe(h)[1],
                                         EdicionPacienteDe(h)[2], EdicionPacienteDe(h)[3])
        \/ actualizar_paciente_store(h)
        \/ actualizar_paciente_cache_nombre(h)
        \/ actualizar_paciente_cache_telefono(h)
        \/ actualizar_paciente_cache_correo(h)
        \/ \E id \in IdsDoctor :
              actualizar_doctor_llamar(h, id, EdicionDoctorDe(h)[1], EdicionDoctorDe(h)[2],
                                       EdicionDoctorDe(h)[3], EdicionDoctorDe(h)[4])
        \/ actualizar_doctor_store(h)
        \/ actualizar_doctor_cache(h)

\* the database holds one patient, one doctor and their appointment
InitCarrera == Arranque(BaseConDatos("Pendiente"))

SpecCarrera == InitCarrera /\ [][NextCarrera]_vars

(***************************************************************************)
(* Store first, cache second.                                              *)
(***************************************************************************)
\* the steps of a call at which its store transaction is not committed yet
AntesDelCommit == {"store", "tx1", "tx2"}

\* the steps of a call that assign to the dictionaries
PasosDeCache ==
    {"cache", "cache_nombre", "cache_telefono", "cache_correo", "cache_citas",
     "cache_entidad"}

\* C17: a step of a call that has not committed its store transaction, and
\* any step that writes a table, leaves the three dictionaries as they
\* are; a dictionary changes only in a step of a thread whose call is past
\* its commit; a call whose store statement raises leaves tables and
\* dictionaries as they are; and while a call is between its commit and its
\* first assignment to the cache, the store has its change and the cache
\* has not.
C17_AlmacenAntesQueCache ==
    /\ [][/\ \A h \in Hilos :
               (/\ hilos'[h] # hilos[h]
                /\ caida' = caida
                /\ hilos[h].pc \in AntesDelCommit \/ hilos'[h].pc \in AntesDelCommit)
               => UNCHANGED <<_pacientes, _doctores, _citas>>
          /\ (<<tabla_pacientes, tabla_doctores, tabla_citas>>' #
                  <<tabla_pacientes, tabla_doctores, tabla_citas>>)
               => UNCHANGED <<_pacientes, _doctores, _citas>>
          /\ (<<_pacientes, _doctores, _citas>>' # <<_pacientes, _doctores, _citas>>
                  /\ caida' = caida)
               => \E h \in Hilos :
                      hilos[h].pc \in PasosDeCache /\ hilos'[h] # hilos[h]
          /\ (ret' # ret /\ ret'.exc = "IntegrityError")
               => UNCHANGED <<tabla_pacientes, tabla_doctores, tabla_citas,
                              _pacientes, _doctores, _citas>>]_vars
    /\ [](\A h \in Hilos :
            /\ (hilos[h].pc = "cache" /\ hilos[h].op = "agregar_paciente")
                 => (/\ hilos[h].nuevo_id \in DOMAIN tabla_pacientes
                     /\ hilos[h].nuevo_id \notin DOMAIN _pacientes)
            /\ (hilos[h].pc = "cache_citas" /\ hilos[h].op = "eliminar_paciente")
                 => (/\ hilos[h].args[1] \notin DOMAIN tabla_pacientes
                     /\ hilos[h].args[1] \in DOMAIN _pacientes)
            /\ (hilos[h].pc = "cache_nombre" /\ hilos[h].op = "actualizar_paciente")
                 => tabla_pacientes[hilos[h].args[1]].nombre = hilos[h].args[2]
            /\ (hilos[h].pc = "cache" /\ hilos[h].op = "agregar_doctor")
                 => (/\ hilos[h].nuevo_id \in DOMAIN tabla_doctores
                     /\ hilos[h].nuevo_id \notin DOMAIN _doctores)
            /\ (hilos[h].pc = "cache" /\ hilos[h].op = "agendar_cita")
                 => (/\ hilos[h].nuevo_id \in DOMAIN tabla_citas
                     /\ hilos[h].nuevo_id \notin DOMAIN _citas)
            /\ (hilos[h].pc = "cache" /\ hilos[h].op = "eliminar_cita")
                 => (/\ hilos[h].args[1] \notin DOMAIN tabla_citas
                     /\ hilos[h].args[1] \in DOMAIN _citas)
            /\ (hilos[h].pc = "cache" /\ hilos[h].op = "actualizar_estado_cita")
                 => tabla_citas[hilos[h].args[1]].estado = hilos[h].args[2])

\* C17 witness: a delete of a patient has committed and has not reached the
\* cache: the patient's appointments are gone from the table and still in
\* the dictionary
C17_Testigo ==
    \E h \in Hilos :
        /\ hilos[h].pc = "cache_citas"
        /\ hilos[h].op = "eliminar_paciente"
        /\ \E k \in DOMAIN _citas :
              /\ _citas[k].id_paciente = hilos[h].args[1]
              /\ k \notin DOMAIN tabla_citas
        /\ hilos[h].args[1] \in DOMAIN _pacientes

\* C17 witness of the failure: a registration whose INSERT raised
C17_TestigoFallo ==
    /\ ret.op = "agregar_paciente"
    /\ ret.exc = "IntegrityError"
    /\ caida = Nunca
    /\ \A h \in Hilos : hilos[h] = Libre
    /\ sqlite_sequence.pacientes = 2

(***************************************************************************)
(* A crash inside the cascading delete.                                    *)
(***************************************************************************)
\* the process died with thread h inside call op at step pc
CayoEn(h, op, pc) == caida[h].pc = pc /\ caida[h].op = op

\* the appointment rows that refer to the patient (campo = "id_paciente")
\* or to the doctor (campo = "id_doctor") with this id
FilasQueRefieren(campo, id) ==
    {k \in DOMAIN tabla_citas : tabla_citas[k][campo] = id}

\* C18 as stated: when the process dies between the two DELETE statements
\* of eliminar_paciente or eliminar_doctor, the database file it leaves has
\* no appointment row of the entity and still has the entity's row.
C18_BorradosIndependientes ==
    \A h \in Hilos :
        /\ CayoEn(h, "eliminar_paciente", "tx1")
             => (/\ FilasQueRefieren("id_paciente", caida[h].args[1]) = {}
                 /\ caida[h].args[1] \in DOMAIN tabla_pacientes)
        /\ CayoEn(h, "eliminar_doctor", "tx1")
             => (/\ FilasQueRefieren("id_doctor", caida[h].args[1]) = {}
                 /\ caida[h].args[1] \in DOMAIN tabla_doctores)

\* C18 amended: the two DELETE statements of a cascading delete run in one
\* transaction and commit together.  When the process dies after the first
\* or after the second statement and before the commit, the database file
\* has every appointment row it had when the transaction opened and the
\* entity's row; when it dies after the commit, it has neither the
\* entity's row nor any appointment row of the entity.
C18_BorradosEnUnaTransaccion ==
    \A h \in Hilos :
        /\ (caida[h].pc \in {"tx1", "tx2"} /\ caida[h].op = "eliminar_paciente")
             => (/\ tabla_citas = caida[h].antes
                 /\ caida[h].args[1] \in DOMAIN tabla_pacientes)
        /\ (caida[h].pc \in {"tx1", "tx2"} /\ caida[h].op = "eliminar_doctor")
             => (/\ tabla_citas = caida[h].antes
                 /\ caida[h].args[1] \in DOMAIN tabla_doctores)
        /\ (caida[h].pc \in {"cache_citas", "cache_entidad"}
                /\ caida[h].op = "eliminar_paciente")
             => (/\ FilasQueRefieren("id_paciente", caida[h].args[1]) = {}
                 /\ caida[h].args[1] \notin DOMAIN tabla_pacientes)
        /\ (caida[h].pc \in {"cache_citas", "cache_entidad"}
                /\ caida[h].op = "eliminar_doctor")
             => (/\ FilasQueRefieren("id_doctor", caida[h].args[1]) = {}
                 /\ caida[h].args[1] \notin DOMAIN tabla_doctores)

\* C18 witness: the process died between the two DELETE statements of the
\* delete of a patient who had appointments, and was started again
C18_Testigo ==
    \E h \in Hilos :
        /\ CayoEn(h, "eliminar_paciente", "tx1")
        /\ FilasQueRefieren("id_paciente", caida[h].args[1]) # {}
        /\ caida[h].tx.citas # caida[h].antes
        /\ ret.op = "__init__"

\* C18 witness for doctors
C18_TestigoDoctor ==
    \E h \in Hilos :
        /\ CayoEn(h, "eliminar_doctor", "tx1")
        /\ FilasQueRefieren("id_doctor", caida[h].args[1]) # {}
        /\ ret.op = "__init__"

(***************************************************************************)
(* What a start-up loads.                                                  *)
(***************************************************************************)
\* gestor = GestorInventario() has just run and no request has started
RecienConstruido ==
    /\ ret.op = "__init__"
    /\ \A h \in Hilos : hilos[h] = Libre

C19_TestigoBorrado ==
    /\ RecienConstruido
    /\ \E h \in Hilos :
          /\ CayoEn(h, "eliminar_paciente", "cache_citas")
          /\ caida[h].args[1] \notin DOMAIN tabla_pacientes
          /\ caida[h].args[1] \notin DOMAIN _pacientes

(***************************************************************************)
(* Two updates of the same entity at once.                                 *)
(***************************************************************************)
\* C20: when the two threads have finished their updates of a patient or
\* doctor, whatever the order in which their store and cache steps ran,
\* the row and the cached object hold the values of one and the same call,
\* that of the last writer: they agree field by field, and the values are
\* those one of the two threads submitted (or the ones before any update).
C20_UltimoEscritorEnAmbos ==
    (\A h \in Hilos : hilos[h] = Libre) =>
        /\ \A k \in DOMAIN _pacientes :
              /\ _pacientes[k].nombre = tabla_pacientes[k].nombre
              /\ _pacientes[k].telefono = tabla_pacientes[k].telefono
              /\ _pacientes[k].correo = tabla_pacientes[k].correo
        /\ \A k \in DOMAIN _doctores : _doctores[k] = tabla_doctores[k]

(***************************************************************************)
(* Two deletes or status changes at once.                                  *)
(***************************************************************************)
\* the operations that report failure with False
OperacionesBooleanas ==
    {"eliminar_paciente", "eliminar_doctor", "eliminar_cita",
     "actualizar_estado_cita"}

\* two request threads delete patients, doctors and appointments and change
\* the status of appointments, their statements interleaved in any order
NextBorrados ==
    \E h \in Hilos :
        \/ \E id \in IdsPaciente : eliminar_paciente_llamar(h, id)
        \/ eliminar_paciente_tx1(h)
        \/ eliminar_paciente_tx2(h)
        \/ eliminar_paciente_commit(h)
        \/ eliminar_paciente_cache_citas(h)
        \/ eliminar_paciente_cache_entidad(h)
        \/ \E id \in IdsDoctor : eliminar_doctor_llamar(h, id)
        \/ eliminar_doctor_tx1(h)
        \/ eliminar_doctor_tx2(h)
        \/ eliminar_doctor_commit(h)
        \/ eliminar_doctor_cache_citas(h)
        \/ eliminar_doctor_cache_entidad(h)
        \/ \E id \in IdsCita, e \in {"Completada", "Atendida"} :
              actualizar_estado_cita_llamar(h, id, e)
        \/ actualizar_estado_cita_store(h)
        \/ actualizar_estado_cita_cache(h)
        \/ \E id \in IdsCita : eliminar_cita_llamar(h, id)
        \/ eliminar_cita_store(h)
        \/ eliminar_cita_cache(h)

\* the database holds one patient, one doctor and two appointments
InitBorrados == Arranque(BaseConDatos("Pendiente"))

SpecBorrados == InitBorrados /\ [][NextBorrados]_vars

\* C21: every call of eliminar_paciente, eliminar_doctor, eliminar_cita and
\* actualizar_estado_cita ends by returning True or False and never by
\* raising, whatever calls came before and however the statements of two
\* such calls on the same identifier interleave.
C21_SiempreDevuelveBooleano ==
    ret.op \in OperacionesBooleanas =>
        /\ ret.exc = "none"
        /\ ret.val \in BOOLEAN

\* one request at a time, the four operations return True or False
C21_UnaPorVezDevuelveBooleano ==
    ret.op \in OperacionesBooleanas =>
        /\ ret.exc = "none"
        /\ ret.val \in {TRUE, FALSE}

(***************************************************************************)
(* The active specialties.                                                 *)
(***************************************************************************)
\* doctors are registered, two of them possibly with one specialty, edited
\* and deleted; appointments name a doctor that is cached or one that is
\* not; the statistics are read
NextEspecialidades ==
    \/ /\ CabeDoctor(MaxDoctores)
       /\ \E f \in FormulariosDoctor : agregar_doctor(f[1], f[2], f[3], f[4])
    \/ \E id \in IdsDoctor, e \in EdicionesDoctor :
          actualizar_doctor(id, e[1], e[2], e[3], e[4])
    \/ \E id \in IdsDoctor : eliminar_doctor(id)
    \/ /\ CabeCita(MaxCitas)
       /\ \E idd \in 1..(MaxDoctores + 1) :
             agendar_cita(1, idd, <<"0", "1">>, <<"0", "9">>, "control")
    \/ \E id \in IdsCita : eliminar_cita(id)
    \/ api_estadisticas

\* the database holds one patient, or two patients and two doctors
InitEspecialidades == \E bd \in {BaseUnPaciente, BaseClinica} : Arranque(bd)

SpecEspecialidades == InitEspecialidades /\ [][NextEspecialidades]_vars

\* the cached doctors that some cached appointment names
DoctoresConCita ==
    {d \in DOMAIN _doctores : \E k \in DOMAIN _citas : _citas[k].id_doctor = d}

\* C22: the especialidades_activas list that estadisticas returns has no
\* element twice, and its elements are exactly the specialties of the
\* cached doctors that at least one cached appointment names: the specialty
\* of a doctor without appointment is in it only when another doctor with
\* an appointment has it, and an appointment whose doctor is not cached
\* adds nothing.
C22_EspecialidadesActivas ==
    ret.op = "estadisticas" =>
        LET l == ret.val.especialidades_activas
        IN  /\ \A i, j \in DOMAIN l : i # j => l[i] # l[j]
            /\ {l[i] : i \in DOMAIN l} =
                  {_doctores[d].especialidad : d \in DoctoresConCita}
            /\ Len(l) <= Cardinality(DoctoresConCita)
            /\ (\A k \in DOMAIN _citas : _citas[k].id_doctor \notin DOMAIN _doctores)
                  => l = <<>>

\* C22 witness: the statistics read with two doctors of one specialty, each
\* with an appointment, and an appointment of a doctor that is not cached
C22_Testigo ==
    /\ ret.op = "estadisticas"
    /\ Cardinality(DoctoresConCita) = 2
    /\ Len(ret.val.especialidades_activas) = 1
    /\ \E k \in DOMAIN _citas : _citas[k].id_doctor \notin DOMAIN _doctores

\* C22 witness: the statistics read with a doctor without appointment
\* whose specialty no doctor with an appointment has
C22_TestigoSinCita ==
    /\ ret.op = "estadisticas"
    /\ DoctoresConCita # {}
    /\ \E d \in DOMAIN _doctores \ DoctoresConCita :
          \A i \in DOMAIN ret.val.especialidades_activas :
              ret.val.especialidades_activas[i] # _doctores[d].especialidad

\* C22 witness: two active specialties, in the one order and in the other
C22_TestigoOrden ==
    /\ ret.op = "estadisticas"
    /\ Len(ret.val.especialidades_activas) = 2
    /\ ret.val.especialidades_activas[1] = "Pediatría"
    /\ ret.val.especialidades_activas[2] = "Cardiología"

(***************************************************************************)
(* The entries of the detailed listing.                                    *)
(***************************************************************************)
\* the keys of an entry: those of Cita.to_dict and the three added ones
CamposDeDetalle ==
    {"id_cita", "id_paciente", "id_doctor", "fecha", "hora", "motivo", "estado",
     "nombre_paciente", "nombre_doctor", "especialidad"}

\* entry x is that of the cached appointment c
EsDetalleDe(x, c) ==
    /\ DOMAIN x = CamposDeDetalle
    /\ x.id_cita = c.id_cita
    /\ x.id_paciente = c.id_paciente
    /\ x.id_doctor = c.id_doctor
    /\ x.fecha = c.fecha
    /\ x.hora = c.hora
    /\ x.motivo = c.motivo
    /\ x.estado = c.estado
    /\ IF c.id_paciente \in DOMAIN _pacientes
       THEN x.nombre_paciente = _pacientes[c.id_paciente].nombre
       ELSE x.nombre_paciente = <<"N", "/", "A">>
    /\ IF c.id_doctor \in DOMAIN _doctores
       THEN /\ x.nombre_doctor = _doctores[c.id_doctor].nombre
            /\ x.especialidad = _doctores[c.id_doctor].especialidad
       ELSE /\ x.nombre_doctor = <<"N", "/", "A">>
            /\ x.especialidad = "N/A"

\* C23: the list that listar_citas_detalle returns has one entry for every
\* cached appointment and no other; the entry has the appointment's seven
\* fields, the name of the cached patient and the name and specialty of the
\* cached doctor; the patient's name is N/A when the patient id is not in
\* the cache, and the doctor's name and the specialty are both N/A when the
\* doctor id is not in the cache.
C23_DetalleDeCadaCita ==
    ret.op = "listar_citas_detalle" =>
        /\ Len(ret.val) = Cardinality(DOMAIN _citas)
        /\ \A k \in DOMAIN _citas :
              \E i \in 1..Len(ret.val) : EsDetalleDe(ret.val[i], _citas[k])
        /\ \A i \in 1..Len(ret.val) :
              /\ ret.val[i].id_cita \in DOMAIN _citas
              /\ EsDetalleDe(ret.val[i], _citas[ret.val[i].id_cita])

\* C23 witness: a listing with an appointment whose patient and doctor are
\* cached and one whose patient is not
C23_Testigo ==
    /\ ret.op = "listar_citas_detalle"
    /\ \E i, j \in 1..Len(ret.val) :
          /\ ret.val[i].id_paciente \in DOMAIN _pacientes
          /\ ret.val[i].id_doctor \in DOMAIN _doctores
          /\ ret.val[i].nombre_paciente # <<"N", "/", "A">>
          /\ ret.val[j].id_paciente \notin DOMAIN _pacientes
          /\ ret.val[j].nombre_paciente = <<"N", "/", "A">>
          /\ ret.val[j].especialidad # "N/A"

\* C23 witness: a listing with an appointment whose doctor is not cached
C23_TestigoSinDoctor ==
    /\ ret.op = "listar_citas_detalle"
    /\ \E i \in 1..Len(ret.val) :
          /\ ret.val[i].id_doctor \notin DOMAIN _doctores
          /\ ret.val[i].nombre_doctor = <<"N", "/", "A">>
          /\ ret.val[i].especialidad = "N/A"

=============================================================================
